---- MODULE Spec2Model ----
(***************************************************************************)
(* ZFS volume emulation driver (FreeBSD): one volume descriptor (zv), the  *)
(* I/O entry points zvol_geom_start / zvol_geom_worker / zvol_strategy /   *)
(* zvol_read / zvol_write / zvol_d_ioctl, and the lifecycle operations     *)
(* zvol_size_changed, zvol_os_clear_private, zvol_free.                    *)
(*                                                                         *)
(* Sizes and offsets are in units of one sector; the per-transaction       *)
(* maximum zvol_maxphys is scaled down to MaxPhys sectors so that a        *)
(* request of MaxLen sectors needs more than one chunk.                    *)
(***************************************************************************)
EXTENDS Integers, Sequences, FiniteSets, TLC

(* ---------------------------------------------------------------- bounds *)
NClients == 2
MaxVol == 3
MaxLen == 3
MaxPhys == 2
MaxFaults == 1
MaxResize == 1
MaxCount == 2
MaxUpdates == 2
MaxRename == 1

zvol_maxphys == MaxPhys

Clients == 1..NClients
Worker == 0
Ctx == Clients \cup {Worker}
\* holders of zv_suspend_lock other than the I/O contexts
Nobody == 0 - 1
Resizer == 0 - 2
\* a read hold of zv_suspend_lock that no thread will give back
Leaked == 0 - 3

MIN(a, b) == IF a < b THEN a ELSE b

(* ----------------------------------------------------------------- state *)
VARIABLES
    zv_volmode,     \* "GEOM" | "DEV"
    zv_volsize,     \* zv->zv_volsize
    zv_flags,       \* subset of {"ZVOL_RDONLY", "ZVOL_EXCL", "ZVOL_WRITTEN_TO"}
    zv_open_count,  \* zv->zv_open_count
    zv_zilog,       \* zv->zv_zilog != NULL
    zv_state,       \* zv->zv_state: 0, 1, 2
    zv_queue,       \* zv->zv_queue: sequence of bios (a bio is named by its client)
    zv_provider,    \* zv->zv_provider != NULL
    pp_private,     \* pp->private != NULL
    pp_mediasize,   \* pp->mediasize
    os_sync,        \* zv->zv_objset->os_sync: "standard" | "always"
    sl_readers,     \* contexts holding zv_suspend_lock as reader
    sl_writer,      \* context holding zv_suspend_lock as writer, or Nobody
    rangelock,      \* held regions of zv_rangelock
    store,          \* contents of ZVOL_OBJ, one value per sector
    bio,            \* per request: the struct bio / uio and the handler's locals
    pc,             \* per request: position of the context that handles it
    wpc,            \* position of zvol_geom_worker
    wbp,            \* the worker's bp (0 when none)
    dpc,            \* position of the destroy sequence
    faults,         \* collaborator failures still to be injected
    resizes,        \* size updates performed so far
    wakers,         \* submitters between bioq_insert_tail() and wakeup_one()
    hist,           \* observations of collaborator calls: a record of counters and sets
    zv_state_lock,  \* context holding zv->zv_state_lock, or Nobody
    zv_name,        \* zv->zv_name
    handles,        \* providers and device nodes made for the volume
    opener,         \* per consumer: the locals of its open or close call
    zvol_state_list,\* the registry: the descriptors zvol_insert() has linked
    objset_owner,   \* per dataset name: who owns the object set, or Nobody
    creator         \* per task: the locals of its zvol_create_minor_impl call

vars == <<zv_volmode, zv_volsize, zv_flags, zv_open_count, zv_zilog, zv_state,
          zv_queue, zv_provider, pp_private, pp_mediasize, os_sync, sl_readers,
          sl_writer, rangelock, store, bio, pc, wpc, wbp, dpc, faults, resizes,
          wakers, hist, zv_state_lock, zv_name, handles, opener,
          zvol_state_list, objset_owner, creator>>

\* what the I/O paths never touch: the reference-count lock between steps, the
\* name and the handles, the calls of open, close and create
mgmtVars == <<zv_state_lock, zv_name, handles, opener, zvol_state_list,
              objset_owner, creator>>

zvVars == <<zv_volmode, zv_volsize, zv_flags, zv_open_count, zv_state,
            zv_provider, pp_private, pp_mediasize, os_sync>>

(* -------------------------------------------------------- the range lock *)
Overlap(o1, l1, o2, l2) == o1 < o2 + l2 /\ o2 < o1 + l1

Conflicts(h, off, len, mode) ==
    /\ Overlap(h.off, h.len, off, len)
    /\ (h.mode = "RL_WRITER" \/ mode = "RL_WRITER")

\* rangelock_enter() returns once no conflicting region is held
rangelock_canenter(b, off, len, mode) ==
    \A h \in rangelock : h.b # b => ~Conflicts(h, off, len, mode)

rangelock_enter(b, off, len, mode) ==
    rangelock \cup {[b |-> b, off |-> off, len |-> len, mode |-> mode]}

rangelock_exit(b) == {h \in rangelock : h.b # b}

Held(b) == \E h \in rangelock : h.b = b

(* ------------------------------------------------------ the suspend lock *)
\* rw_enter(&zv->zv_suspend_lock, RW_READER) returns once no writer holds it
rw_canread(c) == sl_writer = Nobody
\* rw_enter(&zv->zv_suspend_lock, RW_WRITER) returns once nobody holds it
rw_canwrite(c) == sl_writer = Nobody /\ sl_readers = {}

(* ------------------------------------------------------------- requests *)
Pattern(kind, len) ==
    [i \in 1..len |-> CASE kind = "zero" -> 0
                        [] kind = "one" -> 1
                        [] OTHER -> i]

NoBio ==
    [id |-> 0, path |-> "none", cmd |-> "none", bio_offset |-> 0, bio_length |-> 0,
     bio_data |-> <<>>, io_sync |-> FALSE, can_sleep |-> TRUE, ctx |-> 0,
     off |-> 0, resid |-> 0, volsize |-> 0, sync |-> FALSE, error |-> "OK",
     bio_completed |-> 0, buf |-> <<>>, value |-> 0,
     first |-> FALSE, epoch |-> 0, done_epoch |-> 0, by |-> Nobody,
     calls |-> {}, delivered |-> 0, unprotected |-> {}, enqueued |-> FALSE,
     committed |-> FALSE, commit_locked |-> FALSE, early |-> FALSE, seq |-> 0,
     chunks |-> <<>>, events |-> <<>>, signalled |-> FALSE]

NewBio(c, path, cmd, off, len, data, iosync, cansleep) ==
    [NoBio EXCEPT !.id = c, !.path = path, !.cmd = cmd, !.bio_offset = off,
                  !.bio_length = len, !.bio_data = data, !.io_sync = iosync,
                  !.can_sleep = cansleep, !.ctx = c]


SetBio(b, r) == bio' = [bio EXCEPT ![b] = r]

\* the context that executes request b holds zv_suspend_lock
Protected(r) == r.ctx \in sl_readers \/ sl_writer = r.ctx

StoreLogCalls ==
    {"dmu_read", "dmu_tx", "dmu_write", "dmu_free", "zvol_log_write",
     "zvol_log_truncate", "zil_commit", "zil_open"}

\* record collaborator calls made for request r
\* the calls that are handed zv->zv_zilog: zvol_log_write(), zvol_log_truncate()
\* and zil_commit()
LogCalls == {"zvol_log_write", "zvol_log_truncate", "zil_commit"}

Did(r, kinds) ==
    [r EXCEPT !.calls = @ \cup kinds,
              !.unprotected = IF Protected(r) THEN @
                              ELSE @ \cup (kinds \cap StoreLogCalls)]

\* zil_commit() has returned for request r
Committed(r) ==
    [Did(r, {"zil_commit"}) EXCEPT !.committed = TRUE,
                                   !.commit_locked = \E h \in rangelock : h.b = r.id]

\* g_io_deliver() / biofinish() / return to the caller of a cdev entry point;
\* a completed request is no longer one of those pending at the destroy signal
Deliver(r, error) ==
    [r EXCEPT !.error = error, !.delivered = MIN(@ + 1, 2), !.by = r.ctx,
              !.done_epoch = resizes, !.signalled = FALSE,
              !.early = ("zvol_log_write" \in r.calls /\ ~r.committed)]

(* ------------------------------------------- collaborators that can fail *)
TxErrors == {"ENOSPC"}
ReadErrors == {"EIO", "ECKSUM"}
FreeErrors == {"EIO", "ECKSUM"}
UioErrors == {"EFAULT", "ECKSUM"}

Outcomes(errs) == IF faults > 0 THEN {"OK"} \cup errs ELSE {"OK"}
Spend(e) == faults' = IF e = "OK" THEN faults ELSE faults - 1

StoreDom == 0..(MaxVol + MaxLen - 1)

dmu_read(st, off, size) ==
    [i \in 1..size |-> IF (off + i - 1) \in DOMAIN st THEN st[off + i - 1] ELSE 0]

dmu_write(st, off, data) ==
    [i \in DOMAIN st |-> IF off <= i /\ i < off + Len(data)
                         THEN data[i - off + 1] ELSE st[i]]

dmu_free_long_range(st, off, len) ==
    [i \in DOMAIN st |-> IF off <= i /\ i < off + len THEN 0 ELSE st[i]]

(* --------------------------------------------------------- zvol_strategy *)
\* the pointer zv that zvol_strategy derives from the bio (lines 365-368)
StrategyZv(r) == IF r.path = "geom" THEN pp_private ELSE TRUE

\* mutant: the two lock modes exchanged
StrategyLockMode_Swapped(cmd) == IF cmd = "BIO_READ" THEN "RL_WRITER" ELSE "RL_READER"

StrategyLockMode(cmd) == IF cmd = "BIO_READ" THEN "RL_READER" ELSE "RL_WRITER"

\* mutant: the test of doread inverted
StrategySync_Inverted(r) == r.cmd = "BIO_READ" /\ os_sync = "always"

StrategySync(r) == r.cmd # "BIO_READ" /\ os_sync = "always"

\* mutant: the range check accepts offset == volsize
StrategyReject_OffByOne(r) ==
    IF ~StrategyZv(r) THEN "ENXIO"
    ELSE IF r.cmd # "BIO_READ" /\ "ZVOL_RDONLY" \in zv_flags THEN "EROFS"
    ELSE IF r.cmd = "BIO_FLUSH" THEN "OK"
    ELSE IF r.cmd \notin {"BIO_READ", "BIO_WRITE", "BIO_DELETE"} THEN "EOPNOTSUPP"
    ELSE IF r.bio_length > 0 /\ r.bio_offset > zv_volsize THEN "EIO"
    ELSE "OK"

\* mutant: the read-only check looks at BIO_WRITE only
StrategyReject_WriteOnly(r) ==
    IF ~StrategyZv(r) THEN "ENXIO"
    ELSE IF r.cmd = "BIO_WRITE" /\ "ZVOL_RDONLY" \in zv_flags THEN "EROFS"
    ELSE IF r.cmd = "BIO_FLUSH" THEN "OK"
    ELSE IF r.cmd \notin {"BIO_READ", "BIO_WRITE", "BIO_DELETE"} THEN "EOPNOTSUPP"
    ELSE IF r.bio_length > 0 /\ r.bio_offset >= zv_volsize THEN "EIO"
    ELSE "OK"

\* lines 375-405: the error zvol_strategy leaves through "goto out" with, if any
StrategyReject(r) ==
    IF ~StrategyZv(r) THEN "ENXIO"
    ELSE IF r.cmd # "BIO_READ" /\ "ZVOL_RDONLY" \in zv_flags THEN "EROFS"
    ELSE IF r.cmd = "BIO_FLUSH" THEN "OK"
    ELSE IF r.cmd \notin {"BIO_READ", "BIO_WRITE", "BIO_DELETE"} THEN "EOPNOTSUPP"
    ELSE IF r.bio_length > 0 /\ r.bio_offset >= zv_volsize THEN "EIO"
    ELSE "OK"

\* lines 470-475 and the callers' lines 725-727, 784: g_io_deliver() or
\* biofinish(), return; zvol_geom_start and the worker then rw_exit()
StrategyFinish(b, r) ==
    /\ SetBio(b, Deliver(r, r.error))
    /\ pc' = [pc EXCEPT ![b] = "done"]
    /\ sl_readers' = IF r.path = "geom" THEN sl_readers \ {r.ctx} ELSE sl_readers
    /\ wpc' = IF r.ctx = Worker THEN "w_top" ELSE wpc
    /\ wbp' = IF r.ctx = Worker THEN 0 ELSE wbp

\* lines 365-409: the checks before the range lock
zvol_strategy_entry(b) ==
    /\ pc[b] = "s_entry"
    /\ LET r == bio[b]
           e == StrategyReject(r) IN
       IF e # "OK"
       THEN StrategyFinish(b, [r EXCEPT !.error = e])
       ELSE /\ IF r.cmd = "BIO_FLUSH"
               THEN /\ SetBio(b, r)
                    /\ pc' = [pc EXCEPT ![b] = "s_sync"]
               ELSE /\ SetBio(b, [r EXCEPT !.off = r.bio_offset,
                                           !.volsize = zv_volsize,
                                           !.resid = r.bio_length,
                                           !.sync = StrategySync(r)])
                    /\ pc' = [pc EXCEPT ![b] = "s_lock"]
            /\ UNCHANGED <<sl_readers, wpc, wbp>>
    /\ UNCHANGED <<zvVars, zv_zilog, zv_queue, sl_writer, rangelock,
                   store, dpc, faults, resizes, wakers, hist>>
    /\ UNCHANGED mgmtVars

\* lines 415-416: rangelock_enter()
zvol_strategy_lock(b) ==
    /\ pc[b] = "s_lock"
    /\ LET r == bio[b]
           mode == StrategyLockMode(r.cmd) IN
       /\ rangelock_canenter(b, r.off, r.resid, mode)
       /\ rangelock' = rangelock_enter(b, r.off, r.resid, mode)
       /\ SetBio(b, Did(r, {"rangelock_enter"}))
       /\ pc' = [pc EXCEPT ![b] =
              IF r.cmd = "BIO_DELETE" THEN "s_delete"
              ELSE IF r.resid # 0 /\ r.off < r.volsize THEN "s_io" ELSE "s_unlock"]
    /\ UNCHANGED <<zvVars, zv_zilog, zv_queue, sl_readers, sl_writer,
                   store, wpc, wbp, dpc, faults, resizes, wakers, hist>>
    /\ UNCHANGED mgmtVars

\* mutant: no truncate record is written
DeleteCalls_NoLog(e) ==
    IF e # "OK" THEN <<"dmu_tx_assign", "dmu_tx_abort">>
    ELSE <<"dmu_tx_assign", "dmu_tx_commit">>

\* lines 419-425 and 961-968: the calls made for a delete before the range is
\* freed, in their order
DeleteCalls(e) ==
    IF e # "OK" THEN <<"dmu_tx_assign", "dmu_tx_abort">>
    ELSE <<"dmu_tx_assign", "zvol_log_truncate", "dmu_tx_commit">>

\* the calls are noted in the request
Called(r, q) == [r EXCEPT !.events = @ \o q]

\* lines 418-425: BIO_DELETE, the transaction and the truncate record
zvol_strategy_delete(b) ==
    /\ pc[b] = "s_delete"
    /\ \E e \in Outcomes(TxErrors) :
         LET r == bio[b] IN
         /\ Spend(e)
         /\ IF e # "OK"
            THEN /\ SetBio(b, Called([Did(r, {"dmu_tx"}) EXCEPT !.error = e],
                                      DeleteCalls(e)))
                 /\ pc' = [pc EXCEPT ![b] = "s_unlock"]
            ELSE /\ SetBio(b, Called(Did(r, {"dmu_tx", "zvol_log_truncate"}),
                                      DeleteCalls(e)))
                 /\ pc' = [pc EXCEPT ![b] = "s_free"]
    /\ UNCHANGED <<zvVars, zv_zilog, zv_queue, sl_readers, sl_writer, rangelock,
                   store, wpc, wbp, dpc, resizes, wakers, hist>>
    /\ UNCHANGED mgmtVars

\* lines 426-430: dmu_free_long_range(), resid = 0
zvol_strategy_free(b) ==
    /\ pc[b] = "s_free"
    /\ \E e \in Outcomes(FreeErrors) :
         LET r == bio[b] IN
         /\ Spend(e)
         /\ store' = IF e = "OK" THEN dmu_free_long_range(store, r.off, r.resid)
                     ELSE store
         /\ SetBio(b, Called([Did(r, {"dmu_free"}) EXCEPT !.error = e, !.resid = 0],
                              <<"dmu_free_long_range">>))
         /\ pc' = [pc EXCEPT ![b] = "s_unlock"]
    /\ UNCHANGED <<zvVars, zv_zilog, zv_queue, sl_readers, sl_writer, rangelock,
                   wpc, wbp, dpc, resizes, wakers, hist>>
    /\ UNCHANGED mgmtVars

\* the calls of one iteration of the loop of lines 432-458: dmu_read() for a
\* read; for a write dmu_tx_assign(), then dmu_tx_abort(), or dmu_write(),
\* zvol_log_write() and dmu_tx_commit()
ChunkCalls(cmd, e) ==
    IF cmd = "BIO_READ" THEN {"dmu_read"}
    ELSE IF e # "OK" THEN {"dmu_tx_assign", "dmu_tx_abort"}
    ELSE {"dmu_tx_assign", "dmu_write", "zvol_log_write", "dmu_tx_commit"}

\* the iteration is noted in the request: the offset and the size handed to
\* the store, the outcome and the calls
Chunked(r, off, size, e, calls) ==
    [r EXCEPT !.chunks = Append(@, [off |-> off, size |-> size, ok |-> (e = "OK"),
                                    calls |-> calls])]

\* mutant: a chunk that failed is counted as transferred
StrategyChunk_CountsFailed(r, size, e) ==
    IF e # "OK"
    THEN [r EXCEPT !.error = IF e = "ECKSUM" THEN "EIO" ELSE e,
                   !.off = @ + size, !.resid = @ - size]
    ELSE [r EXCEPT !.off = @ + size, !.resid = @ - size]

\* mutant: the offset is not advanced after a chunk
StrategyChunk_SameOffset(r, size, e) ==
    IF e # "OK"
    THEN [r EXCEPT !.error = IF e = "ECKSUM" THEN "EIO" ELSE e]
    ELSE [r EXCEPT !.resid = @ - size]

\* what one iteration of the loop of lines 432-458 leaves in the bio
StrategyChunk(r, size, e) ==
    IF e # "OK"
    THEN [r EXCEPT !.error = IF e = "ECKSUM" THEN "EIO" ELSE e]
    ELSE [r EXCEPT !.off = @ + size, !.resid = @ - size]

\* lines 432-458: one chunk of at most zvol_maxphys
zvol_strategy_io(b) ==
    /\ pc[b] = "s_io"
    /\ LET r == bio[b]
           size == MIN(r.resid, zvol_maxphys)
           done == r.bio_length - r.resid IN
       /\ IF r.cmd = "BIO_READ"
          THEN \E e \in Outcomes(ReadErrors) :
                 /\ Spend(e)
                 /\ store' = store
                 /\ LET r1 == Did(r, {"dmu_read"})
                        r2 == IF e = "OK"
                              THEN [r1 EXCEPT !.buf = @ \o dmu_read(store, r.off, size)]
                              ELSE r1
                        r3 == Chunked(StrategyChunk(r2, size, e), r.off, size, e,
                                      ChunkCalls(r.cmd, e)) IN
                    /\ SetBio(b, r3)
                    /\ pc' = [pc EXCEPT ![b] =
                          IF e = "OK" /\ r3.resid # 0 /\ r3.off < r3.volsize
                          THEN "s_io" ELSE "s_unlock"]
          ELSE \E e \in Outcomes(TxErrors) :
                 /\ Spend(e)
                 /\ store' = IF e = "OK"
                             THEN dmu_write(store, r.off,
                                            SubSeq(r.bio_data, done + 1, done + size))
                             ELSE store
                 /\ LET r1 == IF e = "OK"
                              THEN [Did(r, {"dmu_tx", "dmu_write", "zvol_log_write"})
                                    EXCEPT !.committed = FALSE]
                              ELSE Did(r, {"dmu_tx"})
                        r3 == Chunked(StrategyChunk(r1, size, e), r.off, size, e,
                                      ChunkCalls(r.cmd, e)) IN
                    /\ SetBio(b, r3)
                    /\ pc' = [pc EXCEPT ![b] =
                          IF e = "OK" /\ r3.resid # 0 /\ r3.off < r3.volsize
                          THEN "s_io" ELSE "s_unlock"]
    /\ UNCHANGED <<zvVars, zv_zilog, zv_queue, sl_readers, sl_writer, rangelock,
                   wpc, wbp, dpc, resizes, wakers, hist>>
    /\ UNCHANGED mgmtVars

\* lines 462-464: bio_completed and the EINVAL of a transfer cut short past the end
StrategyCompleted(r) ==
    [r EXCEPT !.bio_completed = r.bio_length - r.resid,
              !.error = IF r.bio_length - r.resid < r.bio_length /\ r.off > r.volsize
                        THEN "EINVAL" ELSE @]

\* lines 459-466: rangelock_exit(), bio_completed; without sync, on to "out"
zvol_strategy_unlock(b) ==
    /\ pc[b] = "s_unlock"
    /\ rangelock' = rangelock_exit(b)
    /\ LET r == StrategyCompleted(bio[b]) IN
       IF r.sync
       THEN /\ SetBio(b, r)
            /\ pc' = [pc EXCEPT ![b] = "s_sync"]
            /\ UNCHANGED <<sl_readers, wpc, wbp>>
       ELSE StrategyFinish(b, r)
    /\ UNCHANGED <<zvVars, zv_zilog, zv_queue, sl_writer,
                   store, dpc, faults, resizes, wakers, hist>>
    /\ UNCHANGED mgmtVars

\* lines 466-469: zil_commit(), then "out"
zvol_strategy_sync(b) ==
    /\ pc[b] = "s_sync"
    /\ StrategyFinish(b, Committed(bio[b]))
    /\ UNCHANGED <<zvVars, zv_zilog, zv_queue, sl_writer, rangelock,
                   store, dpc, faults, resizes, wakers, hist>>
    /\ UNCHANGED mgmtVars

(* ------------------------------------------------------- zvol_geom_start *)
\* mutant: the log is opened for a BIO_READ too
NeedsZil_Read(cmd) == cmd \in {"BIO_FLUSH", "BIO_READ", "BIO_WRITE", "BIO_DELETE"}

NeedsZil(cmd) == cmd \in {"BIO_FLUSH", "BIO_WRITE", "BIO_DELETE"}
Deferrable(cmd) == cmd \in {"BIO_FLUSH", "BIO_READ", "BIO_WRITE", "BIO_DELETE"}

\* the second switch of zvol_geom_start (lines 675-724): where the request goes
GeomDispatch(r) ==
    IF Deferrable(r.cmd) /\ ~r.can_sleep THEN "gs_enqueue"
    ELSE IF r.cmd \in {"BIO_READ", "BIO_WRITE", "BIO_DELETE"} THEN "s_entry"
    ELSE "gs_switch"

\* lines 648-670: rw_enter(READER); with no ZIL yet, rw_exit() before the upgrade
zvol_geom_start_enter(b) ==
    /\ pc[b] = "gs_enter"
    /\ pp_private
    /\ rw_canread(b)
    /\ LET r == [bio[b] EXCEPT !.calls = @ \cup {"rw_enter_reader"}] IN
       IF NeedsZil(r.cmd) /\ ~zv_zilog
       THEN /\ sl_readers' = sl_readers
            /\ SetBio(b, r)
            /\ pc' = [pc EXCEPT ![b] = "gs_upgrade"]
       ELSE /\ sl_readers' = sl_readers \cup {b}
            /\ SetBio(b, r)
            /\ pc' = [pc EXCEPT ![b] = GeomDispatch(r)]
    /\ UNCHANGED <<zvVars, zv_zilog, zv_queue, sl_writer, rangelock, store, wpc,
                   wbp, dpc, faults, resizes, wakers, hist>>
    /\ UNCHANGED mgmtVars

\* lines 663-668: rw_enter(WRITER), zil_open() if still not open
zvol_geom_start_upgrade(b) ==
    /\ pc[b] = "gs_upgrade"
    /\ rw_canwrite(b)
    /\ sl_writer' = b
    /\ LET r == [bio[b] EXCEPT !.calls = @ \cup {"rw_enter_writer"}] IN
       IF ~zv_zilog
       THEN /\ zv_zilog' = TRUE
            /\ zv_flags' = zv_flags \cup {"ZVOL_WRITTEN_TO"}
            /\ SetBio(b, [r EXCEPT !.calls = @ \cup {"zil_open"}])
       ELSE /\ UNCHANGED <<zv_zilog, zv_flags>>
            /\ SetBio(b, r)
    /\ pc' = [pc EXCEPT ![b] = "gs_downgrade"]
    /\ UNCHANGED <<zv_volmode, zv_volsize, zv_open_count, zv_state, zv_provider,
                   pp_private, pp_mediasize, os_sync, zv_queue, sl_readers,
                   rangelock, store, wpc, wbp, dpc, faults, resizes, wakers, hist>>
    /\ UNCHANGED mgmtVars

\* line 669: rw_downgrade()
zvol_geom_start_downgrade(b) ==
    /\ pc[b] = "gs_downgrade"
    /\ sl_writer' = Nobody
    /\ sl_readers' = sl_readers \cup {b}
    /\ pc' = [pc EXCEPT ![b] = GeomDispatch(bio[b])]
    /\ UNCHANGED <<zvVars, zv_zilog, zv_queue, rangelock, store, bio, wpc, wbp,
                   dpc, faults, resizes, wakers, hist>>
    /\ UNCHANGED mgmtVars

\* mutant: a handled BIO_GETATTR falls through to the default case
zvol_geom_start_switch_fallthrough(b) ==
    /\ pc[b] = "gs_switch"
    /\ LET r == bio[b] IN
       IF r.cmd = "BIO_FLUSH"
       THEN SetBio(b, Deliver(Committed(r), "OK"))
       ELSE IF r.cmd = "BIO_GETATTR"
       THEN \E handled \in BOOLEAN :
               SetBio(b, IF handled THEN Deliver(Deliver(r, "OK"), "EOPNOTSUPP")
                         ELSE Deliver(r, "EOPNOTSUPP"))
       ELSE SetBio(b, Deliver(r, "EOPNOTSUPP"))
    /\ sl_readers' = sl_readers \ {b}
    /\ pc' = [pc EXCEPT ![b] = "done"]
    /\ UNCHANGED <<zvVars, zv_zilog, zv_queue, sl_writer, rangelock,
                   store, wpc, wbp, dpc, faults, resizes, wakers, hist>>
    /\ UNCHANGED mgmtVars

\* lines 676-681 and 689-727: an inline BIO_FLUSH, BIO_GETATTR, anything else;
\* g_io_deliver(), rw_exit()
zvol_geom_start_switch(b) ==
    /\ pc[b] = "gs_switch"
    /\ LET r == bio[b] IN
       IF r.cmd = "BIO_FLUSH"
       THEN SetBio(b, Deliver(Committed(r), "OK"))
       ELSE IF r.cmd = "BIO_GETATTR"
       THEN \E handled \in BOOLEAN :
               SetBio(b, Deliver(r, IF handled THEN "OK" ELSE "EOPNOTSUPP"))
       ELSE SetBio(b, Deliver(r, "EOPNOTSUPP"))
    /\ sl_readers' = sl_readers \ {b}
    /\ pc' = [pc EXCEPT ![b] = "done"]
    /\ UNCHANGED <<zvVars, zv_zilog, zv_queue, sl_writer, rangelock,
                   store, wpc, wbp, dpc, faults, resizes, wakers, hist>>
    /\ UNCHANGED mgmtVars

\* wakeup_one(&zv->zv_queue): the worker is the only sleeper on that channel
wakeup_one_queue == IF wpc = "w_sleep" THEN "w_top" ELSE wpc

\* the place of a request in the order of insertion
Ticket == 1 + Cardinality({c \in Clients : bio[c].enqueued})

\* mutant: the request is put at the head of the queue
zvol_geom_start_enqueue_head(b) ==
    /\ pc[b] = "gs_enqueue"
    /\ zv_state_lock = Nobody
    /\ sl_readers' = sl_readers \ {b}
    /\ SetBio(b, [bio[b] EXCEPT !.first = (zv_queue = <<>>), !.enqueued = TRUE,
                                !.seq = Ticket])
    /\ zv_queue' = <<b>> \o zv_queue
    /\ wakers' = IF zv_queue = <<>> THEN wakers \cup {b} ELSE wakers
    /\ pc' = [pc EXCEPT ![b] = "queued"]
    /\ UNCHANGED <<zvVars, zv_zilog, sl_writer, rangelock, store, wpc, wbp, dpc,
                   faults, resizes, hist>>
    /\ UNCHANGED mgmtVars

\* mutant: the submitter never takes the queue to have been empty
zvol_geom_start_enqueue_nowake(b) ==
    /\ pc[b] = "gs_enqueue"
    /\ zv_state_lock = Nobody
    /\ sl_readers' = sl_readers \ {b}
    /\ SetBio(b, [bio[b] EXCEPT !.first = FALSE, !.enqueued = TRUE,
                                !.seq = Ticket])
    /\ zv_queue' = Append(zv_queue, b)
    /\ wakers' = wakers
    /\ pc' = [pc EXCEPT ![b] = "queued"]
    /\ UNCHANGED <<zvVars, zv_zilog, sl_writer, rangelock, store, wpc, wbp, dpc,
                   faults, resizes, hist>>
    /\ UNCHANGED mgmtVars

\* lines 729-734: rw_exit(), then under zv_state_lock: first, bioq_insert_tail().
\* From here the request belongs to the queue; the submitter still has line 735.
zvol_geom_start_enqueue(b) ==
    /\ pc[b] = "gs_enqueue"
    /\ zv_state_lock = Nobody
    /\ sl_readers' = sl_readers \ {b}
    /\ SetBio(b, [bio[b] EXCEPT !.first = (zv_queue = <<>>), !.enqueued = TRUE,
                                !.seq = Ticket])
    /\ zv_queue' = Append(zv_queue, b)
    /\ wakers' = IF zv_queue = <<>> THEN wakers \cup {b} ELSE wakers
    /\ pc' = [pc EXCEPT ![b] = "queued"]
    /\ UNCHANGED <<zvVars, zv_zilog, sl_writer, rangelock, store, wpc, wbp, dpc,
                   faults, resizes, hist>>
    /\ UNCHANGED mgmtVars

\* lines 735-737: if (first) wakeup_one(&zv->zv_queue)
zvol_geom_start_wakeup(b) ==
    /\ b \in wakers
    /\ wakers' = wakers \ {b}
    /\ wpc' = wakeup_one_queue
    /\ UNCHANGED <<zvVars, zv_zilog, zv_queue, sl_readers, sl_writer, rangelock,
                   store, bio, pc, wbp, dpc, faults, resizes, hist>>
    /\ UNCHANGED mgmtVars

(* ------------------------------------------------------ zvol_geom_worker *)
\* mutant: with an empty queue the worker sleeps without looking at zv_state
zvol_geom_worker_top_sleeps ==
    /\ wpc = "w_top"
    /\ zv_state_lock = Nobody
    /\ IF zv_queue = <<>>
       THEN /\ zv_state' = zv_state
            /\ wpc' = "w_sleep"
            /\ UNCHANGED <<zv_queue, wbp, bio>>
       ELSE /\ wbp' = Head(zv_queue)
            /\ zv_queue' = Tail(zv_queue)
            /\ SetBio(Head(zv_queue), [bio[Head(zv_queue)] EXCEPT !.ctx = Worker])
            /\ wpc' = "w_enter"
            /\ zv_state' = zv_state
    /\ UNCHANGED <<zv_volmode, zv_volsize, zv_flags, zv_open_count, zv_provider,
                   pp_private, pp_mediasize, os_sync, zv_zilog, sl_readers,
                   sl_writer, rangelock, store, pc, dpc, faults, resizes, wakers,
                   hist>>
    /\ UNCHANGED mgmtVars

\* lines 751-764: under zv_state_lock take the first bio; with none, retire when
\* zv_state is 1, else msleep() on the queue
zvol_geom_worker_top ==
    /\ wpc = "w_top"
    /\ zv_state_lock = Nobody
    /\ IF zv_queue = <<>>
       THEN /\ IF zv_state = 1
               THEN /\ zv_state' = 2
                    /\ wpc' = "w_exiting"
               ELSE /\ zv_state' = zv_state
                    /\ wpc' = "w_sleep"
            /\ UNCHANGED <<zv_queue, wbp, bio>>
       ELSE /\ wbp' = Head(zv_queue)
            /\ zv_queue' = Tail(zv_queue)
            /\ SetBio(Head(zv_queue), [bio[Head(zv_queue)] EXCEPT !.ctx = Worker])
            /\ wpc' = "w_enter"
            /\ zv_state' = zv_state
    /\ UNCHANGED <<zv_volmode, zv_volsize, zv_flags, zv_open_count, zv_provider,
                   pp_private, pp_mediasize, os_sync, zv_zilog, sl_readers,
                   sl_writer, rangelock, store, pc, dpc, faults, resizes, wakers,
                   hist>>
    /\ UNCHANGED mgmtVars

\* line 758: kthread_exit()
zvol_geom_worker_exit ==
    /\ wpc = "w_exiting"
    /\ wpc' = "w_dead"
    /\ UNCHANGED <<zvVars, zv_zilog, zv_queue, sl_readers, sl_writer, rangelock,
                   store, bio, pc, wbp, dpc, faults, resizes, wakers, hist>>
    /\ UNCHANGED mgmtVars

\* lines 769-779: rw_enter(READER); BIO_READ/WRITE/DELETE go to zvol_strategy
zvol_geom_worker_enter ==
    /\ wpc = "w_enter"
    /\ rw_canread(Worker)
    /\ sl_readers' = sl_readers \cup {Worker}
    /\ IF bio[wbp].cmd \in {"BIO_READ", "BIO_WRITE", "BIO_DELETE"}
       THEN /\ pc' = [pc EXCEPT ![wbp] = "s_entry"]
            /\ wpc' = "w_strategy"
       ELSE /\ pc' = pc
            /\ wpc' = "w_switch"
    /\ UNCHANGED <<zvVars, zv_zilog, zv_queue, sl_writer, rangelock, store, bio,
                   wbp, dpc, faults, resizes, wakers, hist>>
    /\ UNCHANGED mgmtVars

\* lines 771-774 and 780-784: BIO_FLUSH, and anything else; rw_exit()
zvol_geom_worker_switch ==
    /\ wpc = "w_switch"
    /\ LET r == bio[wbp] IN
       IF r.cmd = "BIO_FLUSH"
       THEN SetBio(wbp, Deliver(Committed(r), "OK"))
       ELSE SetBio(wbp, Deliver(r, "EOPNOTSUPP"))
    /\ pc' = [pc EXCEPT ![wbp] = "done"]
    /\ sl_readers' = sl_readers \ {Worker}
    /\ wpc' = "w_top"
    /\ wbp' = 0
    /\ UNCHANGED <<zvVars, zv_zilog, zv_queue, sl_writer, rangelock,
                   store, dpc, faults, resizes, wakers, hist>>
    /\ UNCHANGED mgmtVars

(* ------------------------------------------------- zvol_read, zvol_write *)
\* the bytes of one iteration: MIN(resid, DMU_MAX_ACCESS >> 1), not past the end
UioBytes(r) == MIN(MIN(r.resid, zvol_maxphys), r.volsize - r.off)

\* the range check of zvol_read and zvol_write (lines 489-491, 527-529)
UioOutOfRange(r, volsize) == r.bio_length > 0 /\ r.bio_offset > volsize

UioLockMode(path) == IF path = "cdev_read" THEN "RL_READER" ELSE "RL_WRITER"

\* lines 485-491 and 523-532
zvol_uio_entry(b) ==
    /\ pc[b] = "u_entry"
    /\ LET r == [bio[b] EXCEPT !.off = bio[b].bio_offset,
                               !.resid = bio[b].bio_length,
                               !.volsize = zv_volsize] IN
       IF UioOutOfRange(r, zv_volsize)
       THEN /\ SetBio(b, Deliver(r, "EIO"))
            /\ pc' = [pc EXCEPT ![b] = "done"]
       ELSE /\ SetBio(b, [r EXCEPT !.sync = (r.path = "cdev_write" /\
                                     (r.io_sync \/ os_sync = "always"))])
            /\ pc' = [pc EXCEPT ![b] = "u_lock"]
    /\ UNCHANGED <<zvVars, zv_zilog, zv_queue, sl_readers, sl_writer, rangelock,
                   store, wpc, wbp, dpc, faults, resizes, wakers, hist>>
    /\ UNCHANGED mgmtVars

\* lines 493-494 and 534-535: rangelock_enter()
zvol_uio_lock(b) ==
    /\ pc[b] = "u_lock"
    /\ LET r == bio[b]
           mode == UioLockMode(r.path) IN
       /\ rangelock_canenter(b, r.off, r.resid, mode)
       /\ rangelock' = rangelock_enter(b, r.off, r.resid, mode)
       /\ SetBio(b, Did(r, {"rangelock_enter"}))
       /\ pc' = [pc EXCEPT ![b] =
              IF r.resid > 0 /\ r.off < r.volsize THEN "u_io" ELSE "u_unlock"]
    /\ UNCHANGED <<zvVars, zv_zilog, zv_queue, sl_readers, sl_writer,
                   store, wpc, wbp, dpc, faults, resizes, wakers, hist>>
    /\ UNCHANGED mgmtVars

\* lines 495-509: one iteration of the loop of zvol_read
zvol_read_io(b) ==
    /\ pc[b] = "u_io"
    /\ bio[b].path = "cdev_read"
    /\ \E e \in Outcomes(ReadErrors) :
         LET r == bio[b]
             bytes == UioBytes(r)
             r1 == Did(r, {"dmu_read"})
             r2 == IF e = "OK"
                   THEN [r1 EXCEPT !.buf = @ \o dmu_read(store, r.off, bytes)]
                   ELSE r1
             r3 == Chunked(StrategyChunk(r2, bytes, e), r.off, bytes, e,
                           {"dmu_read"}) IN
         /\ Spend(e)
         /\ SetBio(b, r3)
         /\ pc' = [pc EXCEPT ![b] =
               IF e = "OK" /\ r3.resid > 0 /\ r3.off < r3.volsize
               THEN "u_io" ELSE "u_unlock"]
    /\ UNCHANGED <<zvVars, zv_zilog, zv_queue, sl_readers, sl_writer, rangelock,
                   store, wpc, wbp, dpc, resizes, wakers, hist>>
    /\ UNCHANGED mgmtVars

\* lines 539-556: the calls of one iteration of the loop of zvol_write:
\* dmu_tx_abort() after a failed dmu_tx_assign(), no zvol_log_write() after a
\* failed dmu_write_uio_dnode()
UioChunkCalls(e) ==
    IF e = "OK" THEN {"dmu_tx_assign", "dmu_write", "zvol_log_write", "dmu_tx_commit"}
    ELSE IF e \in TxErrors THEN {"dmu_tx_assign", "dmu_tx_abort"}
    ELSE {"dmu_tx_assign", "dmu_write", "dmu_tx_commit"}

\* lines 536-557: one iteration of the loop of zvol_write
zvol_write_io(b) ==
    /\ pc[b] = "u_io"
    /\ bio[b].path = "cdev_write"
    /\ \E e \in Outcomes(TxErrors \cup UioErrors) :
         LET r == bio[b]
             bytes == UioBytes(r)
             done == r.bio_length - r.resid
             r1 == IF e = "OK"
                   THEN [Did(r, {"dmu_tx", "dmu_write", "zvol_log_write"})
                         EXCEPT !.committed = FALSE]
                   ELSE IF e \in TxErrors THEN Did(r, {"dmu_tx"})
                   ELSE Did(r, {"dmu_tx", "dmu_write"})
             r2 == IF e = "OK"
                   THEN [r1 EXCEPT !.off = @ + bytes, !.resid = @ - bytes]
                   ELSE [r1 EXCEPT !.error = e]
             r3 == Chunked(r2, r.off, bytes, e, UioChunkCalls(e)) IN
         /\ Spend(e)
         /\ store' = IF e = "OK"
                     THEN dmu_write(store, r.off,
                                    SubSeq(r.bio_data, done + 1, done + bytes))
                     ELSE store
         /\ SetBio(b, r3)
         /\ pc' = [pc EXCEPT ![b] =
               IF e = "OK" /\ r3.resid > 0 /\ r3.off < r3.volsize
               THEN "u_io" ELSE "u_unlock"]
    /\ UNCHANGED <<zvVars, zv_zilog, zv_queue, sl_readers, sl_writer, rangelock,
                   wpc, wbp, dpc, resizes, wakers, hist>>
    /\ UNCHANGED mgmtVars

\* lines 510-511 and 558-559: rangelock_exit(); zvol_read returns here
zvol_uio_unlock(b) ==
    /\ pc[b] = "u_unlock"
    /\ LET r == [bio[b] EXCEPT !.bio_completed = bio[b].bio_length - bio[b].resid] IN
       /\ rangelock' = rangelock_exit(b)
       /\ IF r.sync
          THEN /\ SetBio(b, r)
               /\ pc' = [pc EXCEPT ![b] = "u_sync"]
          ELSE /\ SetBio(b, Deliver(r, r.error))
               /\ pc' = [pc EXCEPT ![b] = "done"]
    /\ UNCHANGED <<zvVars, zv_zilog, zv_queue, sl_readers, sl_writer,
                   store, wpc, wbp, dpc, faults, resizes, wakers, hist>>
    /\ UNCHANGED mgmtVars

\* lines 559-561: zil_commit() and the return of zvol_write
zvol_write_sync(b) ==
    /\ pc[b] = "u_sync"
    /\ SetBio(b, Deliver(Committed(bio[b]), bio[b].error))
    /\ pc' = [pc EXCEPT ![b] = "done"]
    /\ UNCHANGED <<zvVars, zv_zilog, zv_queue, sl_readers, sl_writer, rangelock,
                   store, wpc, wbp, dpc, faults, resizes, wakers, hist>>
    /\ UNCHANGED mgmtVars

(* ---------------------------------------------------------- zvol_d_ioctl *)
\* lines 950-952: the argument check of DIOCGDELETE
IoctlDeleteInvalid(r) == r.bio_offset >= zv_volsize \/ r.bio_length <= 0

\* lines 933-957 and 976-981: the ioctls that need no range lock
zvol_d_ioctl_entry(b) ==
    /\ pc[b] = "i_entry"
    /\ LET r == [bio[b] EXCEPT !.off = bio[b].bio_offset,
                               !.resid = bio[b].bio_length] IN
       IF r.cmd = "DIOCGMEDIASIZE"
       THEN /\ SetBio(b, Deliver([r EXCEPT !.value = zv_volsize], "OK"))
            /\ pc' = [pc EXCEPT ![b] = "done"]
       ELSE IF r.cmd = "DIOCGFLUSH"
       THEN /\ SetBio(b, Deliver(Committed(r), "OK"))
            /\ pc' = [pc EXCEPT ![b] = "done"]
       ELSE IF IoctlDeleteInvalid(r)
       THEN /\ SetBio(b, Deliver(r, "EINVAL"))
            /\ pc' = [pc EXCEPT ![b] = "done"]
       ELSE /\ SetBio(b, r)
            /\ pc' = [pc EXCEPT ![b] = "i_lock"]
    /\ UNCHANGED <<zvVars, zv_zilog, zv_queue, sl_readers, sl_writer, rangelock,
                   store, wpc, wbp, dpc, faults, resizes, wakers, hist>>
    /\ UNCHANGED mgmtVars

\* line 959: rangelock_enter(offset, length, RL_WRITER)
zvol_d_ioctl_lock(b) ==
    /\ pc[b] = "i_lock"
    /\ LET r == bio[b] IN
       /\ rangelock_canenter(b, r.off, r.resid, "RL_WRITER")
       /\ rangelock' = rangelock_enter(b, r.off, r.resid, "RL_WRITER")
       /\ SetBio(b, Did(r, {"rangelock_enter"}))
    /\ pc' = [pc EXCEPT ![b] = "i_delete"]
    /\ UNCHANGED <<zvVars, zv_zilog, zv_queue, sl_readers, sl_writer,
                   store, wpc, wbp, dpc, faults, resizes, wakers, hist>>
    /\ UNCHANGED mgmtVars

\* lines 960-968: the transaction and the truncate record
zvol_d_ioctl_delete(b) ==
    /\ pc[b] = "i_delete"
    /\ \E e \in Outcomes(TxErrors) :
         LET r == bio[b] IN
         /\ Spend(e)
         /\ IF e # "OK"
            THEN /\ SetBio(b, Called([Did(r, {"dmu_tx"})
                                       EXCEPT !.error = e, !.sync = FALSE],
                                      DeleteCalls(e)))
                 /\ pc' = [pc EXCEPT ![b] = "i_unlock"]
            ELSE /\ SetBio(b, Called([Did(r, {"dmu_tx", "zvol_log_truncate"})
                                       EXCEPT !.sync = (os_sync = "always")],
                                      DeleteCalls(e)))
                 /\ pc' = [pc EXCEPT ![b] = "i_free"]
    /\ UNCHANGED <<zvVars, zv_zilog, zv_queue, sl_readers, sl_writer, rangelock,
                   store, wpc, wbp, dpc, resizes, wakers, hist>>
    /\ UNCHANGED mgmtVars

\* lines 969-970: dmu_free_long_range()
zvol_d_ioctl_free(b) ==
    /\ pc[b] = "i_free"
    /\ \E e \in Outcomes(FreeErrors) :
         LET r == bio[b] IN
         /\ Spend(e)
         /\ store' = IF e = "OK" THEN dmu_free_long_range(store, r.off, r.resid)
                     ELSE store
         /\ SetBio(b, Called([Did(r, {"dmu_free"}) EXCEPT !.error = e],
                              <<"dmu_free_long_range">>))
         /\ pc' = [pc EXCEPT ![b] = "i_unlock"]
    /\ UNCHANGED <<zvVars, zv_zilog, zv_queue, sl_readers, sl_writer, rangelock,
                   wpc, wbp, dpc, resizes, wakers, hist>>
    /\ UNCHANGED mgmtVars

\* lines 972-975 and 1024: rangelock_exit(), zil_commit() if sync, return
zvol_d_ioctl_unlock(b) ==
    /\ pc[b] = "i_unlock"
    /\ rangelock' = rangelock_exit(b)
    /\ LET r == bio[b] IN
       IF r.sync
       THEN /\ SetBio(b, r)
            /\ pc' = [pc EXCEPT ![b] = "u_sync"]
       ELSE /\ SetBio(b, Deliver(r, r.error))
            /\ pc' = [pc EXCEPT ![b] = "done"]
    /\ UNCHANGED <<zvVars, zv_zilog, zv_queue, sl_readers, sl_writer,
                   store, wpc, wbp, dpc, faults, resizes, wakers, hist>>
    /\ UNCHANGED mgmtVars


(* ------------------------------------------------------------ size update *)
\* the caller of zvol_os_update_volsize takes zv_suspend_lock as writer
resize_begin ==
    /\ sl_writer = Nobody /\ sl_readers = {}
    /\ dpc = "d_idle"
    /\ resizes < MaxResize
    /\ sl_writer' = Resizer
    /\ UNCHANGED <<zvVars, zv_zilog, zv_queue, sl_readers, rangelock, store, bio,
                   pc, wpc, wbp, dpc, faults, resizes, wakers, hist>>
    /\ UNCHANGED mgmtVars

\* mutant: the new size reaches the provider but not zv_volsize
zvol_size_changed_stale ==
    /\ sl_writer = Resizer
    /\ \E volsize \in 1..MaxVol :
         /\ volsize # zv_volsize
         /\ zv_volsize' = zv_volsize
         /\ IF zv_volmode = "GEOM" /\ zv_provider
            THEN /\ pp_mediasize' = volsize
                 /\ hist' = [hist EXCEPT !.volsize = volsize,
                               !.assigned = MIN(@ + 1, 2),
                               !.g_resize_provider = IF pp_mediasize = 0 THEN @ ELSE @ + 1,
                               !.g_resize_size = IF pp_mediasize = 0 THEN @ ELSE volsize]
            ELSE /\ pp_mediasize' = pp_mediasize
                 /\ hist' = [hist EXCEPT !.volsize = volsize,
                                         !.assigned = MIN(@ + 1, 2)]
    /\ sl_writer' = Nobody
    /\ resizes' = resizes + 1
    /\ UNCHANGED <<zv_volmode, zv_flags, zv_open_count, zv_state, zv_provider,
                   pp_private, os_sync, zv_zilog, zv_queue, sl_readers, rangelock,
                   store, bio, pc, wpc, wbp, dpc, faults, wakers>>
    /\ UNCHANGED mgmtVars

\* mutant: g_resize_provider() also for the first size of a new provider
zvol_size_changed_always ==
    /\ sl_writer = Resizer
    /\ \E volsize \in 1..MaxVol :
         /\ volsize # zv_volsize
         /\ zv_volsize' = volsize
         /\ IF zv_volmode = "GEOM" /\ zv_provider
            THEN /\ pp_mediasize' = volsize
                 /\ hist' = [hist EXCEPT !.volsize = volsize,
                               !.assigned = MIN(@ + 1, 2),
                               !.g_resize_provider = @ + 1,
                               !.g_resize_size = volsize]
            ELSE /\ pp_mediasize' = pp_mediasize
                 /\ hist' = [hist EXCEPT !.volsize = volsize,
                                         !.assigned = MIN(@ + 1, 2)]
    /\ sl_writer' = Nobody
    /\ resizes' = resizes + 1
    /\ UNCHANGED <<zv_volmode, zv_flags, zv_open_count, zv_state, zv_provider,
                   pp_private, os_sync, zv_zilog, zv_queue, sl_readers, rangelock,
                   store, bio, pc, wpc, wbp, dpc, faults, wakers>>
    /\ UNCHANGED mgmtVars

\* zvol_os_update_volsize -> zvol_size_changed (lines 1292-1315, 1335-1340), then
\* the caller drops the lock; hist.volsize is the size that was asked for
zvol_size_changed ==
    /\ sl_writer = Resizer
    /\ \E volsize \in 1..MaxVol :
         /\ volsize # zv_volsize
         /\ zv_volsize' = volsize
         /\ IF zv_volmode = "GEOM" /\ zv_provider
            THEN /\ pp_mediasize' = volsize
                 /\ hist' = [hist EXCEPT !.volsize = volsize,
                               !.assigned = MIN(@ + 1, 2),
                               !.g_resize_provider = IF pp_mediasize = 0 THEN @ ELSE @ + 1,
                               !.g_resize_size = IF pp_mediasize = 0 THEN @ ELSE volsize]
            ELSE /\ pp_mediasize' = pp_mediasize
                 /\ hist' = [hist EXCEPT !.volsize = volsize,
                                         !.assigned = MIN(@ + 1, 2)]
    /\ sl_writer' = Nobody
    /\ resizes' = resizes + 1
    /\ UNCHANGED <<zv_volmode, zv_flags, zv_open_count, zv_state, zv_provider,
                   pp_private, os_sync, zv_zilog, zv_queue, sl_readers, rangelock,
                   store, bio, pc, wpc, wbp, dpc, faults, wakers>>
    /\ UNCHANGED mgmtVars

(* ------------------------------------------------- the backing object set *)
\* thread x makes the call named call: noted when x does not hold
\* zv_suspend_lock as reader
Unheld(h, x, call) ==
    [h EXCEPT !.unheld = IF x \in sl_readers THEN @ ELSE @ \cup {call}]

\* zvol_first_open() by thread x: the object set is owned, zvol_setup_zv() runs
zvol_first_open(h, x) == [Unheld(h, x, "zvol_first_open") EXCEPT !.objset = TRUE]

\* zvol_last_close() by thread x: the log is closed, the object set disowned
zvol_last_close(h, x) == [Unheld(h, x, "zvol_last_close") EXCEPT !.objset = FALSE]

(* ---------------------------------------------------------------- destroy *)
\* zvol_close for the last reference, when rw_tryenter() succeeds (lines 293-348)
zvol_close ==
    /\ zv_open_count > 0
    /\ zv_state_lock = Nobody
    /\ sl_writer = Nobody
    /\ zv_open_count' = 0
    /\ zv_flags' = zv_flags \ {"ZVOL_EXCL"}
    /\ zv_zilog' = FALSE
    /\ hist' = [hist EXCEPT !.objset = FALSE]
    /\ UNCHANGED <<zv_volmode, zv_volsize, zv_state, zv_provider, pp_private,
                   pp_mediasize, os_sync, zv_queue, sl_readers,
                   sl_writer, rangelock, store, bio, pc, wpc, wbp, dpc, faults,
                   resizes, wakers>>
    /\ UNCHANGED mgmtVars

\* the requests that are in the queue when zv_state is set to 1 are marked
\* until they are completed
Signalled(q) ==
    [b \in Clients |->
        IF \E i \in DOMAIN zv_queue : zv_queue[i] = b
        THEN [q[b] EXCEPT !.signalled = TRUE]
        ELSE q[b]]

\* lines 1323-1328: zv_state = 1, pp->private = NULL, wakeup_one(); the caller
\* holds zvol_state_lock as writer and zv_state_lock, and only starts with no
\* open reference
zvol_os_clear_private ==
    /\ dpc = "d_idle"
    /\ zv_state_lock = Nobody
    /\ \A c \in Clients : opener[c].registry = 0
    /\ zv_open_count = 0
    /\ sl_writer # Resizer
    /\ IF zv_provider
       THEN /\ zv_state' = 1
            /\ pp_private' = FALSE
            /\ wpc' = wakeup_one_queue
            /\ dpc' = "d_wait"
            /\ bio' = Signalled(bio)
       ELSE /\ UNCHANGED <<zv_state, pp_private, wpc, bio>>
            /\ dpc' = "d_free"
    /\ UNCHANGED <<zv_volmode, zv_volsize, zv_flags, zv_open_count, zv_provider,
                   pp_mediasize, os_sync, zv_zilog, zv_queue, sl_readers,
                   sl_writer, rangelock, store, pc, wbp, faults, resizes,
                   wakers, hist>>
    /\ UNCHANGED mgmtVars

\* lines 1323-1328 once more: zvol_os_clear_private is called again for the
\* same descriptor after its first call has returned and before zvol_free
zvol_os_clear_private_again ==
    /\ dpc = "d_free"
    /\ zv_state_lock = Nobody
    /\ IF zv_provider
       THEN /\ zv_state' = 1
            /\ pp_private' = FALSE
            /\ wpc' = wakeup_one_queue
            /\ dpc' = "d_wait"
            /\ bio' = Signalled(bio)
       ELSE UNCHANGED <<zv_state, pp_private, wpc, dpc, bio>>
    /\ UNCHANGED <<zv_volmode, zv_volsize, zv_flags, zv_open_count, zv_provider,
                   pp_mediasize, os_sync, zv_zilog, zv_queue, sl_readers,
                   sl_writer, rangelock, store, pc, wbp, faults, resizes,
                   wakers, hist, mgmtVars>>

\* mutant: the caller goes on as soon as the worker has been woken
zvol_os_clear_private_nowait ==
    /\ dpc = "d_wait"
    /\ dpc' = "d_free"
    /\ hist' = [hist EXCEPT !.woken = TRUE]
    /\ UNCHANGED <<zvVars, zv_zilog, zv_queue, sl_readers, sl_writer, rangelock,
                   store, bio, pc, wpc, wbp, faults, resizes, wakers>>
    /\ UNCHANGED mgmtVars

\* lines 1329-1331: while (zv_state != 2) msleep(&zv->zv_state, ...)
zvol_os_clear_private_wait ==
    /\ dpc = "d_wait"
    /\ zv_state = 2
    /\ dpc' = "d_free"
    /\ hist' = [hist EXCEPT !.woken = TRUE]
    /\ UNCHANGED <<zvVars, zv_zilog, zv_queue, sl_readers, sl_writer, rangelock,
                   store, bio, pc, wpc, wbp, faults, resizes, wakers>>
    /\ UNCHANGED mgmtVars

\* lines 1148-1149: rw_destroy(), zfs_rangelock_fini()
zvol_free_locks ==
    /\ dpc = "d_free"
    /\ hist' = [hist EXCEPT !.released = @ \cup {"zv_suspend_lock", "zv_rangelock"}]
    /\ dpc' = "d_free_dev"
    /\ UNCHANGED <<zvVars, zv_zilog, zv_queue, sl_readers, sl_writer, rangelock,
                   store, bio, pc, wpc, wbp, faults, resizes, wakers>>
    /\ UNCHANGED mgmtVars

\* lines 576-590: VERIFY(zv_state == 2), g_wither_geom()
zvol_geom_destroy(h) ==
    [h EXCEPT !.g_wither_geom = @ + 1, !.released = @ \cup {"zv_provider"}]

\* lines 1150-1157: the provider or the device node
zvol_free_dev ==
    /\ dpc = "d_free_dev"
    /\ zv_state_lock = Nobody
    /\ IF zv_volmode = "GEOM"
       THEN IF zv_state = 2
            THEN /\ hist' = zvol_geom_destroy(hist)
                 /\ zv_provider' = FALSE
                 /\ dpc' = "d_free_mem"
            ELSE /\ UNCHANGED <<hist, zv_provider>>
                 /\ dpc' = "panic"
       ELSE /\ hist' = [hist EXCEPT !.released = @ \cup {"zv_dev"}]
            /\ zv_provider' = zv_provider
            /\ dpc' = "d_free_mem"
    /\ UNCHANGED <<zv_volmode, zv_volsize, zv_flags, zv_open_count, zv_state,
                   pp_private, pp_mediasize, os_sync, zv_zilog, zv_queue,
                   sl_readers, sl_writer, rangelock, store, bio, pc, wpc, wbp,
                   faults, resizes, wakers>>
    /\ UNCHANGED mgmtVars

\* lines 1159-1161: mutex_destroy(), kmem_free()
zvol_free_mem ==
    /\ dpc = "d_free_mem"
    /\ hist' = [hist EXCEPT !.released = @ \cup {"zv_state_lock", "zv"}]
    /\ dpc' = "d_done"
    /\ UNCHANGED <<zvVars, zv_zilog, zv_queue, sl_readers, sl_writer, rangelock,
                   store, bio, pc, wpc, wbp, faults, resizes, wakers>>
    /\ UNCHANGED mgmtVars

(* ------------------------------------------------------------- submission *)
\* <<offset, length>> of the requests issued: two that overlap, one beside them,
\* one of several chunks, one that runs over the end, and two at the end
Extents == {<<0, 1>>, <<0, MaxLen>>, <<MaxVol - 1, MaxPhys>>, <<MaxVol, 1>>}

\* what a GEOM consumer can hand to zvol_geom_start
GeomRequests(c) ==
    {NewBio(c, "geom", cmd, e[1], e[2], Pattern("one", e[2]), FALSE, s) :
        cmd \in {"BIO_READ", "BIO_WRITE", "BIO_DELETE"}, e \in Extents,
        s \in BOOLEAN}
    \cup {NewBio(c, "geom", cmd, 0, 0, <<>>, FALSE, s) :
        cmd \in {"BIO_FLUSH", "BIO_GETATTR", "BIO_ZONE"}, s \in BOOLEAN}

\* what reaches the character device: d_strategy, d_read, d_write, d_ioctl
CdevRequests(c) ==
    {NewBio(c, "cdev_strategy", cmd, e[1], e[2], Pattern("one", e[2]), FALSE, TRUE) :
        cmd \in {"BIO_READ", "BIO_WRITE", "BIO_DELETE"}, e \in Extents}
    \cup {NewBio(c, "cdev_strategy", "BIO_FLUSH", 0, 0, <<>>, FALSE, TRUE)}
    \cup {NewBio(c, "cdev_read", "read", e[1], e[2], <<>>, FALSE, TRUE) :
        e \in Extents}
    \cup {NewBio(c, "cdev_write", "write", e[1], e[2], Pattern("one", e[2]), s, TRUE) :
        e \in Extents, s \in BOOLEAN}
    \cup {NewBio(c, "cdev_ioctl", "DIOCGDELETE", e[1], e[2], <<>>, FALSE, TRUE) :
        e \in Extents}
    \cup {NewBio(c, "cdev_ioctl", cmd, 0, 0, <<>>, FALSE, TRUE) :
        cmd \in {"DIOCGMEDIASIZE", "DIOCGFLUSH"}}

EntryPoint(r) ==
    CASE r.path = "geom" -> "gs_enter"
      [] r.path = "cdev_strategy" -> "s_entry"
      [] r.path = "cdev_ioctl" -> "i_entry"
      [] OTHER -> "u_entry"

\* a consumer with an open reference issues one of the requests of menu
Submit(c, menu) ==
    /\ pc[c] = "idle"
    /\ zv_open_count > 0
    /\ \A d \in Clients : d < c => pc[d] # "idle"
    /\ \E r \in menu :
         /\ bio' = [bio EXCEPT ![c] = [r EXCEPT !.epoch = resizes]]
         /\ pc' = [pc EXCEPT ![c] = EntryPoint(r)]
    /\ UNCHANGED <<zvVars, zv_zilog, zv_queue, sl_readers, sl_writer, rangelock,
                   store, wpc, wbp, dpc, faults, resizes, wakers, hist>>
    /\ UNCHANGED mgmtVars

Requests(c) == IF zv_volmode = "GEOM" THEN GeomRequests(c) ELSE CdevRequests(c)

(* ------------------------------------------------------------------ Init *)
NoHist == [g_wither_geom |-> 0, g_resize_provider |-> 0, released |-> {},
           woken |-> FALSE, volsize |-> MaxVol, g_resize_size |-> 0,
           assigned |-> 0, renames |-> 0, objset |-> FALSE, unheld |-> {},
           stray |-> {}]

\* dataset names
Names == {"a", "b"}

\* the locals of zvol_open / zvol_close / zvol_d_open / zvol_d_close
NoOpen == [pc |-> "o_idle", op |-> "none", flag |-> {}, count |-> 0,
           drop_suspend |-> FALSE, err |-> "OK", refs |-> 0, registry |-> 0]

\* the locals of zvol_create_minor_impl
NoCreate == [pc |-> "c_idle", name |-> "none", volmode |-> "none", error |-> "OK",
             ret |-> "none", found |-> {}, trace |-> <<>>]

\* the handle zvol_create_minor_impl makes for descriptor zv: g_new_providerf()
\* or make_dev_s(); the volume of the I/O paths is descriptor 0
Handle(mode, name, zv) ==
    [kind |-> IF mode = "GEOM" THEN "provider" ELSE "cdev", name |-> name,
     live |-> TRUE, zv |-> zv]

\* no open, close or create call is running; the volume is named "a"
MgmtInit ==
    /\ zv_state_lock = Nobody
    /\ zv_name = "a"
    /\ handles = {Handle(zv_volmode, "a", 0)}
    /\ opener = [c \in Clients |-> NoOpen]
    /\ zvol_state_list = {}
    /\ objset_owner = [n \in Names |-> Nobody]
    /\ creator = [c \in Clients |-> NoCreate]

(* ---------------------------------------------------------- create-minor *)
\* the volmode property of a dataset
VolmodeOf(name) == IF name = "a" THEN "GEOM" ELSE "DEV"

\* zvol_find_by_name_hash(): the linked descriptors that carry the name
zvol_find_by_name_hash(name) == {z \in zvol_state_list : z.name = name}

\* zvol_insert(): link the descriptor, whatever is linked already
zvol_insert(z) == zvol_state_list \cup {z}

\* dmu_objset_own(): one owner at a time
dmu_objset_own_ok(name) == objset_owner[name] = Nobody

\* make_dev_s() with MAKEDEV_CHECKNAME: the name must not be in use
make_dev_s_ok(name) ==
    ~\E h \in handles : h.kind = "cdev" /\ h.name = name /\ h.live

Panicked == \E c \in Clients : creator[c].pc = "c_panic"

SetCreator(c, r) == creator' = [creator EXCEPT ![c] = r]

\* the calls and the reads of zv->zv_volmode of a create task, in their order
Traced(r, q) == [r EXCEPT !.trace = @ \o q]

\* lines 1262-1267: zil_replay() or zil_destroy() when the pool is writable
Replay(writable) == IF writable THEN <<"zil_replay">> ELSE <<>>

\* lines 1254-1257 and 1271-1274 after make_dev_s() has failed: the descriptor
\* is freed and the object set disowned, then out_dmu_objset_disown disowns
\* again and reads zv->zv_volmode
MakeDevFailed ==
    <<"kmem_free", "dmu_objset_disown", "dmu_objset_disown", "read_freed_zv">>

\* a task is handed a dataset name
zvol_create_minor_call(c) ==
    /\ creator[c].pc = "c_idle"
    /\ ~Panicked
    /\ \E n \in Names :
         SetCreator(c, [NoCreate EXCEPT !.pc = "c_find", !.name = n,
                                        !.volmode = VolmodeOf(n)])
    /\ UNCHANGED <<zvVars, zv_zilog, zv_queue, sl_readers, sl_writer, rangelock,
                   store, bio, pc, wpc, wbp, dpc, faults, resizes, wakers, hist,
                   zv_state_lock, zv_name, handles, opener, zvol_state_list,
                   objset_owner>>

\* lines 1181-1186: a descriptor with the name is linked: return EEXIST
zvol_create_minor_find(c) ==
    /\ creator[c].pc = "c_find"
    /\ ~Panicked
    /\ LET r == creator[c]
           zv == zvol_find_by_name_hash(r.name) IN
       IF zv # {}
       THEN SetCreator(c, [r EXCEPT !.pc = "c_done", !.ret = "EEXIST",
                                    !.found = zvol_state_list])
       ELSE SetCreator(c, [r EXCEPT !.pc = "c_own"])
    /\ UNCHANGED <<zvVars, zv_zilog, zv_queue, sl_readers, sl_writer, rangelock,
                   store, bio, pc, wpc, wbp, dpc, faults, resizes, wakers, hist,
                   zv_state_lock, zv_name, handles, opener, zvol_state_list,
                   objset_owner>>

\* lines 1190-1194: dmu_objset_own(); on error goto out_doi
zvol_create_minor_own(c) ==
    /\ creator[c].pc = "c_own"
    /\ ~Panicked
    /\ LET r == creator[c] IN
       IF dmu_objset_own_ok(r.name)
       THEN /\ objset_owner' = [objset_owner EXCEPT ![r.name] = c]
            /\ SetCreator(c, Traced([r EXCEPT !.pc = "c_info"], <<"dmu_objset_own">>))
       ELSE /\ objset_owner' = objset_owner
            /\ SetCreator(c, [r EXCEPT !.pc = "c_out_doi", !.error = "EBUSY"])
    /\ UNCHANGED <<zvVars, zv_zilog, zv_queue, sl_readers, sl_writer, rangelock,
                   store, bio, pc, wpc, wbp, dpc, faults, resizes, wakers, hist,
                   zv_state_lock, zv_name, handles, opener, zvol_state_list>>

\* lines 1196-1202: dmu_object_info(), zap_lookup(); on error goto
\* out_dmu_objset_disown, where line 1274 reads zv->zv_volmode with zv == NULL
zvol_create_minor_info(c) ==
    /\ creator[c].pc = "c_info"
    /\ ~Panicked
    /\ \E e \in Outcomes(ReadErrors) :
         /\ Spend(e)
         /\ IF e = "OK"
            THEN /\ SetCreator(c, [creator[c] EXCEPT !.pc = "c_alloc"])
                 /\ objset_owner' = objset_owner
            ELSE /\ SetCreator(c, Traced([creator[c] EXCEPT !.pc = "c_panic",
                                                             !.error = e],
                                         <<"dmu_objset_disown", "read_null_zv">>))
                 /\ objset_owner' = [objset_owner EXCEPT ![creator[c].name] = Nobody]
    /\ UNCHANGED <<zvVars, zv_zilog, zv_queue, sl_readers, sl_writer, rangelock,
                   store, bio, pc, wpc, wbp, dpc, resizes, wakers, hist,
                   zv_state_lock, zv_name, handles, opener, zvol_state_list>>

\* lines 1207-1270: the descriptor and its provider or device node.  When
\* make_dev_s() fails the descriptor is freed and the object set disowned, and
\* out_dmu_objset_disown then disowns again and reads the freed zv->zv_volmode:
\* the call goes on to out_doi or the kernel stops
zvol_create_minor_alloc(c) ==
    /\ creator[c].pc = "c_alloc"
    /\ ~Panicked
    /\ LET r == creator[c] IN
       IF r.volmode = "GEOM" \/ make_dev_s_ok(r.name)
       THEN /\ handles' = handles \cup {Handle(r.volmode, r.name, c)}
            /\ \E writable \in BOOLEAN :
                 SetCreator(c, Traced([r EXCEPT !.pc = "c_disown"],
                                      <<"kmem_zalloc">> \o Replay(writable)))
            /\ objset_owner' = objset_owner
       ELSE /\ handles' = handles
            /\ objset_owner' = [objset_owner EXCEPT ![r.name] = Nobody]
            /\ \E next \in {"c_out_doi", "c_panic"} :
                 SetCreator(c, Traced([r EXCEPT !.pc = next, !.error = "EEXIST"],
                                      <<"kmem_zalloc">> \o MakeDevFailed))
    /\ UNCHANGED <<zvVars, zv_zilog, zv_queue, sl_readers, sl_writer, rangelock,
                   store, bio, pc, wpc, wbp, dpc, faults, resizes, wakers, hist,
                   zv_state_lock, zv_name, opener, zvol_state_list>>

\* lines 1271-1278: dmu_objset_disown(), zvol_geom_run()
zvol_create_minor_disown(c) ==
    /\ creator[c].pc = "c_disown"
    /\ ~Panicked
    /\ objset_owner' = [objset_owner EXCEPT ![creator[c].name] = Nobody]
    /\ SetCreator(c, Traced([creator[c] EXCEPT !.pc = "c_out_doi"],
                            <<"dmu_objset_disown", "read_zv">>))
    /\ UNCHANGED <<zvVars, zv_zilog, zv_queue, sl_readers, sl_writer, rangelock,
                   store, bio, pc, wpc, wbp, dpc, faults, resizes, wakers, hist,
                   zv_state_lock, zv_name, handles, opener, zvol_state_list>>

\* lines 1279-1289: if (error == 0) zvol_insert(zv) under zvol_state_lock;
\* return (0)
zvol_create_minor_insert(c) ==
    /\ creator[c].pc = "c_out_doi"
    /\ ~Panicked
    /\ LET r == creator[c] IN
         /\ zvol_state_list' =
              IF r.error = "OK"
              THEN zvol_insert([zv |-> c, name |-> r.name, zv_volmode |-> r.volmode,
                                zv_state |-> 0, zv_open_count |-> 0])
              ELSE zvol_state_list
         /\ SetCreator(c, [r EXCEPT !.pc = "c_done", !.ret = "0"])
    /\ UNCHANGED <<zvVars, zv_zilog, zv_queue, sl_readers, sl_writer, rangelock,
                   store, bio, pc, wpc, wbp, dpc, faults, resizes, wakers, hist,
                   zv_state_lock, zv_name, handles, opener, objset_owner>>


(* --------------------------------------------------------- open and close *)
\* the thread of consumer c inside an open or close call
Oc(c) == NClients + c

SetOpener(c, r) == opener' = [opener EXCEPT ![c] = r]

\* <<acr, acw, ace>> handed to zvol_geom_access
AccessDeltas ==
    {<<1, 0, 0>>, <<1, 1, 0>>, <<0, 0, 0>>, <<0 - 1, 0, 0>>, <<0 - 1, 0 - 1, 0>>}

\* lines 592-640: GEOM changes the access counts of consumer c by d; a consumer
\* gives back no more than it holds
zvol_geom_access(c) ==
    /\ opener[c].pc = "o_idle"
    /\ zv_volmode = "GEOM"
    /\ dpc = "d_idle"
    /\ \E d \in AccessDeltas :
         LET count == d[1] + d[2] + d[3]
             flags == IF d[2] # 0 THEN {"FREAD", "FWRITE"} ELSE {"FREAD"} IN
         /\ opener[c].refs + count >= 0
         /\ opener[c].refs + count <= MaxCount
         /\ IF ~pp_private \/ count = 0
            THEN SetOpener(c, [opener[c] EXCEPT !.err = "OK"])
            ELSE SetOpener(c, [opener[c] EXCEPT
                     !.pc = IF count > 0 THEN "o_enter" ELSE "cl_enter",
                     !.op = IF count > 0 THEN "zvol_open" ELSE "zvol_close",
                     !.flag = flags,
                     !.count = IF count > 0 THEN count ELSE 0 - count,
                     !.drop_suspend = TRUE, !.err = "OK"])
    /\ UNCHANGED <<zvVars, zv_zilog, zv_queue, sl_readers, sl_writer, rangelock,
                   store, bio, pc, wpc, wbp, dpc, faults, resizes, wakers, hist,
                   zv_state_lock, zv_name, handles, zvol_state_list,
                   objset_owner, creator>>

\* devfs calls d_open, and d_close once for every open (D_TRACKCLOSE, line 177)
zvol_d_call(c) ==
    /\ opener[c].pc = "o_idle"
    /\ zv_volmode = "DEV"
    /\ dpc = "d_idle"
    /\ \E h \in handles : h.zv = 0 /\ h.live
    /\ \/ \E flags \in SUBSET {"FWRITE", "FEXCL"} :
            /\ opener[c].refs < MaxCount
            /\ SetOpener(c, [opener[c] EXCEPT !.pc = "o_enter", !.op = "zvol_d_open",
                             !.flag = flags, !.count = 1, !.drop_suspend = TRUE,
                             !.err = "OK"])
       \/ /\ opener[c].refs > 0
          /\ SetOpener(c, [opener[c] EXCEPT !.pc = "cl_enter", !.op = "zvol_d_close",
                             !.flag = {}, !.count = 1, !.drop_suspend = TRUE,
                             !.err = "OK"])
    /\ UNCHANGED <<zvVars, zv_zilog, zv_queue, sl_readers, sl_writer, rangelock,
                   store, bio, pc, wpc, wbp, dpc, faults, resizes, wakers, hist,
                   zv_state_lock, zv_name, handles, zvol_state_list,
                   objset_owner, creator>>

\* rw_enter(&zvol_state_lock, ZVOL_RW_READER) by the call with locals o
RegistryEnter(o) == [o EXCEPT !.registry = @ + 1]

\* rw_exit(&zvol_state_lock) by the call with locals o
RegistryExit(o) == [o EXCEPT !.registry = IF @ > 0 THEN @ - 1 ELSE @]

\* rw_exit(&zvol_state_lock) by a call that does not hold the lock is noted
Stray(h, o) == IF o.registry = 0 THEN [h EXCEPT !.stray = @ \cup {o.op}] ELSE h

\* what a call leaves in the consumer's record when it returns err
Returned(o, err, refs) ==
    [NoOpen EXCEPT !.err = err, !.refs = refs, !.registry = o.registry]

\* mutant: when rw_tryenter() fails the thread keeps zv_state_lock while it
\* waits for zv_suspend_lock
zvol_open_enter_keeps_mutex(c) ==
    /\ opener[c].pc = "o_enter"
    /\ zv_state_lock = Nobody
    /\ zv_state_lock' = Oc(c)
    /\ IF zv_open_count = 0
       THEN IF sl_writer = Nobody
            THEN /\ sl_readers' = sl_readers \cup {Oc(c)}
                 /\ SetOpener(c, [opener[c] EXCEPT !.pc = "o_body"])
            ELSE /\ sl_readers' = sl_readers
                 /\ SetOpener(c, [opener[c] EXCEPT !.pc = "o_wait"])
       ELSE /\ sl_readers' = sl_readers
            /\ SetOpener(c, [opener[c] EXCEPT !.pc = "o_body", !.drop_suspend = FALSE])
    /\ UNCHANGED <<zvVars, zv_zilog, zv_queue, sl_writer, rangelock, store, bio, pc,
                   wpc, wbp, dpc, faults, resizes, wakers, hist, zv_name, handles,
                   zvol_state_list, objset_owner, creator>>

\* zvol_open lines 208-225, 233-235 (zvol_d_open lines 795-804, 813-815): with
\* pp->private == NULL zvol_open calls rw_exit(&zvol_state_lock) and returns
\* ENXIO; else rw_enter(&zvol_state_lock), mutex_enter(&zv->zv_state_lock); for
\* a first open rw_tryenter() of zv_suspend_lock, and mutex_exit() when that
\* fails
zvol_open_enter(c) ==
    /\ opener[c].pc = "o_enter"
    /\ IF opener[c].op = "zvol_open" /\ ~pp_private
       THEN /\ hist' = Stray(hist, opener[c])
            /\ SetOpener(c, Returned(RegistryExit(opener[c]), "ENXIO", opener[c].refs))
            /\ UNCHANGED <<sl_readers, zv_state_lock>>
       ELSE /\ zv_state_lock = Nobody
            /\ hist' = hist
            /\ LET o == RegistryEnter(opener[c]) IN
               IF zv_open_count = 0
               THEN IF sl_writer = Nobody
                    THEN /\ sl_readers' = sl_readers \cup {Oc(c)}
                         /\ zv_state_lock' = Oc(c)
                         /\ SetOpener(c, [o EXCEPT !.pc = "o_body"])
                    ELSE /\ sl_readers' = sl_readers
                         /\ zv_state_lock' = Nobody
                         /\ SetOpener(c, [o EXCEPT !.pc = "o_wait"])
               ELSE /\ sl_readers' = sl_readers
                    /\ zv_state_lock' = Oc(c)
                    /\ SetOpener(c, [o EXCEPT !.pc = "o_body", !.drop_suspend = FALSE])
    /\ UNCHANGED <<zvVars, zv_zilog, zv_queue, sl_writer, rangelock, store, bio, pc,
                   wpc, wbp, dpc, faults, resizes, wakers, zv_name, handles,
                   zvol_state_list, objset_owner, creator>>

\* zvol_open line 226, zvol_close line 320 (zvol_d_open 805, zvol_d_close 889):
\* rw_enter(&zv->zv_suspend_lock, ZVOL_RW_READER)
zvol_open_wait(c) ==
    /\ opener[c].pc \in {"o_wait", "cl_wait"}
    /\ rw_canread(Oc(c))
    /\ sl_readers' = sl_readers \cup {Oc(c)}
    /\ SetOpener(c, [opener[c] EXCEPT
                       !.pc = IF opener[c].pc = "o_wait" THEN "o_relock" ELSE "cl_relock"])
    /\ UNCHANGED <<zvVars, zv_zilog, zv_queue, sl_writer, rangelock, store, bio, pc,
                   wpc, wbp, dpc, faults, resizes, wakers, hist, zv_state_lock,
                   zv_name, handles, zvol_state_list, objset_owner, creator>>

\* zvol_open lines 227-232 (zvol_d_open 806-811): mutex_enter() again; the lock
\* is given back if the volume was opened meanwhile
zvol_open_relock(c) ==
    /\ opener[c].pc = "o_relock"
    /\ zv_state_lock = Nobody
    /\ zv_state_lock' = Oc(c)
    /\ IF zv_open_count # 0
       THEN /\ sl_readers' = sl_readers \ {Oc(c)}
            /\ SetOpener(c, [opener[c] EXCEPT !.pc = "o_body", !.drop_suspend = FALSE])
       ELSE /\ sl_readers' = sl_readers
            /\ SetOpener(c, [opener[c] EXCEPT !.pc = "o_body"])
    /\ UNCHANGED <<zvVars, zv_zilog, zv_queue, sl_writer, rangelock, store, bio, pc,
                   wpc, wbp, dpc, faults, resizes, wakers, hist, zv_name, handles,
                   zvol_state_list, objset_owner, creator>>

\* mutant: an exclusive open is granted whatever the open count
OpenError_ExclAlways(flag, flags, open_count) ==
    IF "FWRITE" \in flag /\ "ZVOL_RDONLY" \in flags THEN "EROFS"
    ELSE IF "ZVOL_EXCL" \in flags THEN "EBUSY"
    ELSE "OK"

\* zvol_open lines 250-266 (zvol_d_open 825-840): the checks of an open
OpenError(flag, flags, open_count) ==
    IF "FWRITE" \in flag /\ "ZVOL_RDONLY" \in flags THEN "EROFS"
    ELSE IF "ZVOL_EXCL" \in flags THEN "EBUSY"
    ELSE IF "FEXCL" \in flag /\ open_count # 0 THEN "EBUSY"
    ELSE "OK"

\* zvol_setup_zv lines 1107-1108 in zvol_first_open: no log, nothing written
zvol_setup_zv(flags) == flags \ {"ZVOL_WRITTEN_TO"}

FirstOpenErrors == {"ENXIO"}

\* mutant: ZVOL_EXCL is set before the open count is looked at
OpenFlags_Early(flag, flags, err) ==
    IF "FEXCL" \in flag THEN flags \cup {"ZVOL_EXCL"} ELSE flags

\* zvol_open lines 260-266 (zvol_d_open 835-841): ZVOL_EXCL is set by an
\* exclusive open that has passed the checks
OpenFlags(flag, flags, err) ==
    IF err = "OK" /\ "FEXCL" \in flag THEN flags \cup {"ZVOL_EXCL"} ELSE flags

\* zvol_open lines 236-281 (zvol_d_open 817-860): zvol_first_open() for a first
\* open, the checks, the count; a refused open gives back what it opened
\* (out_open_count, out_opened); mutex_exit() and rw_exit().  zvol_d_open
\* returns 0 after mutex_exit() alone (lines 843-850): a first open keeps its
\* hold of zv_suspend_lock for good
zvol_open_body(c) ==
    /\ opener[c].pc = "o_body"
    /\ zv_state_lock = Oc(c)
    /\ LET o == opener[c]
           first == zv_open_count = 0 IN
       \E e \in (IF first THEN Outcomes(FirstOpenErrors) ELSE {"OK"}) :
         LET opened == first /\ e = "OK"
             flags1 == IF opened THEN zvol_setup_zv(zv_flags) ELSE zv_flags
             err == IF e # "OK" THEN e ELSE OpenError(o.flag, flags1, zv_open_count)
             sized == opened /\ o.op = "zvol_open"
             h1 == IF opened THEN zvol_first_open(hist, Oc(c)) ELSE hist
             h2 == IF sized THEN [h1 EXCEPT !.assigned = MIN(@ + 1, 2)] ELSE h1
             h3 == IF e = "OK" /\ err # "OK" /\ zv_open_count = 0
                   THEN zvol_last_close(h2, Oc(c)) ELSE h2
             kept == err = "OK" /\ o.op = "zvol_d_open" IN
         /\ Spend(e)
         /\ pp_mediasize' = IF sized THEN zv_volsize ELSE pp_mediasize
         /\ hist' = Stray(h3, o)
         /\ zv_zilog' = IF first THEN FALSE ELSE zv_zilog
         /\ zv_flags' = OpenFlags(o.flag, flags1, err)
         /\ zv_open_count' = IF err = "OK" THEN zv_open_count + o.count
                             ELSE zv_open_count
         /\ SetOpener(c, Returned(RegistryExit(o), err,
                                   IF err = "OK" THEN o.refs + o.count ELSE o.refs))
         /\ sl_readers' = IF ~o.drop_suspend THEN sl_readers
                          ELSE IF kept THEN (sl_readers \ {Oc(c)}) \cup {Leaked}
                          ELSE sl_readers \ {Oc(c)}
    /\ zv_state_lock' = Nobody
    /\ UNCHANGED <<zv_volmode, zv_volsize, zv_state, zv_queue, zv_provider,
                   pp_private, os_sync, sl_writer, rangelock, store, bio, pc, wpc,
                   wbp, dpc, resizes, wakers, zv_name, handles, zvol_state_list,
                   objset_owner, creator>>

\* zvol_close lines 293-319, 328-330 (zvol_d_close 869-888, 897-899):
\* rw_enter(&zvol_state_lock); with pp->private == NULL zvol_close gives it
\* back and returns ENXIO; else mutex_enter(), ZVOL_EXCL cleared, rw_tryenter()
\* for a last close
zvol_close_enter(c) ==
    /\ opener[c].pc = "cl_enter"
    /\ IF opener[c].op = "zvol_close" /\ ~pp_private
       THEN /\ SetOpener(c, Returned(RegistryExit(RegistryEnter(opener[c])), "ENXIO",
                                     opener[c].refs))
            /\ UNCHANGED <<sl_readers, zv_state_lock, zv_flags>>
       ELSE /\ zv_state_lock = Nobody
            /\ zv_flags' = zv_flags \ {"ZVOL_EXCL"}
            /\ LET o == RegistryEnter(opener[c]) IN
               IF zv_open_count - o.count = 0
               THEN IF sl_writer = Nobody
                    THEN /\ sl_readers' = sl_readers \cup {Oc(c)}
                         /\ zv_state_lock' = Oc(c)
                         /\ SetOpener(c, [o EXCEPT !.pc = "cl_body"])
                    ELSE /\ sl_readers' = sl_readers
                         /\ zv_state_lock' = Nobody
                         /\ SetOpener(c, [o EXCEPT !.pc = "cl_wait"])
               ELSE /\ sl_readers' = sl_readers
                    /\ zv_state_lock' = Oc(c)
                    /\ SetOpener(c, [o EXCEPT !.pc = "cl_body", !.drop_suspend = FALSE])
    /\ UNCHANGED <<zv_volmode, zv_volsize, zv_open_count, zv_state, zv_provider,
                   pp_private, pp_mediasize, os_sync, zv_zilog, zv_queue, sl_writer,
                   rangelock, store, bio, pc, wpc, wbp, dpc, faults, resizes, wakers,
                   hist, zv_name, handles, zvol_state_list, objset_owner, creator>>

\* zvol_close lines 321-326 (zvol_d_close 890-895): mutex_enter() again; the
\* lock is given back if (zv->zv_open_count != 1)
zvol_close_relock(c) ==
    /\ opener[c].pc = "cl_relock"
    /\ zv_state_lock = Nobody
    /\ zv_state_lock' = Oc(c)
    /\ IF zv_open_count # 1
       THEN /\ sl_readers' = sl_readers \ {Oc(c)}
            /\ SetOpener(c, [opener[c] EXCEPT !.pc = "cl_body", !.drop_suspend = FALSE])
       ELSE /\ sl_readers' = sl_readers
            /\ SetOpener(c, [opener[c] EXCEPT !.pc = "cl_body"])
    /\ UNCHANGED <<zvVars, zv_zilog, zv_queue, sl_writer, rangelock, store, bio, pc,
                   wpc, wbp, dpc, faults, resizes, wakers, hist, zv_name, handles,
                   zvol_state_list, objset_owner, creator>>

\* zvol_close lines 331-348 (zvol_d_close 900-915): the count, zvol_last_close()
\* at zero, mutex_exit() and rw_exit()
zvol_close_body(c) ==
    /\ opener[c].pc = "cl_body"
    /\ zv_state_lock = Oc(c)
    /\ zv_open_count' = zv_open_count - opener[c].count
    /\ zv_zilog' = IF zv_open_count' = 0 THEN FALSE ELSE zv_zilog
    /\ hist' = Stray(IF zv_open_count' = 0 THEN zvol_last_close(hist, Oc(c)) ELSE hist,
                     opener[c])
    /\ SetOpener(c, Returned(RegistryExit(opener[c]), "OK",
                             opener[c].refs - opener[c].count))
    /\ zv_state_lock' = Nobody
    /\ sl_readers' = IF opener[c].drop_suspend THEN sl_readers \ {Oc(c)} ELSE sl_readers
    /\ UNCHANGED <<zv_volmode, zv_volsize, zv_flags, zv_state, zv_provider,
                   pp_private, pp_mediasize, os_sync, zv_queue, sl_writer, rangelock,
                   store, bio, pc, wpc, wbp, dpc, faults, resizes, wakers,
                   zv_name, handles, zvol_state_list, objset_owner, creator>>

\* the caller of zvol_os_update_volsize suspends the volume: zv_suspend_lock
\* as writer
zvol_suspend ==
    /\ rw_canwrite(Resizer)
    /\ dpc = "d_idle"
    /\ resizes < MaxUpdates
    /\ sl_writer' = Resizer
    /\ UNCHANGED <<zvVars, zv_zilog, zv_queue, sl_readers, rangelock, store, bio,
                   pc, wpc, wbp, dpc, faults, resizes, wakers, hist, mgmtVars>>

\* the suspended volume is resumed with its size as it was
zvol_resume ==
    /\ sl_writer = Resizer
    /\ sl_writer' = Nobody
    /\ UNCHANGED <<zvVars, zv_zilog, zv_queue, sl_readers, rangelock, store, bio,
                   pc, wpc, wbp, dpc, faults, resizes, wakers, hist, mgmtVars>>

(* ----------------------------------------------------------------- rename *)
RenameErrors == {"EEXIST"}

\* the thread that calls zvol_rename_minor: it holds zvol_state_lock and
\* zv_state_lock, and not zv_suspend_lock (line 1073)
Renamer == 0 - 4

\* lines 1036-1091, called with zvol_state_lock and zv_state_lock held.  GEOM:
\* g_wither_provider() and a new provider.  DEV: destroy_dev(), which returns
\* once no thread is inside the device's methods and after which devfs hands
\* no call of the old node to the driver; the open count is dropped; then
\* make_dev_s(), which can fail
zvol_rename_minor ==
    /\ zv_state_lock = Nobody
    /\ dpc = "d_idle"
    /\ hist.renames < MaxRename
    /\ \E newname \in Names \ {zv_name} :
         /\ zv_name' = newname
         /\ IF zv_volmode = "GEOM"
            THEN /\ zv_provider
                 /\ handles' = {[h EXCEPT !.live = (h.zv # 0 /\ h.live)] : h \in handles}
                                  \cup {Handle("GEOM", newname, 0)}
                 /\ pp_mediasize' = zv_volsize
                 /\ pp_private' = TRUE
                 /\ hist' = [hist EXCEPT !.renames = @ + 1, !.assigned = MIN(@ + 1, 2)]
                 /\ UNCHANGED <<zv_flags, zv_open_count, zv_zilog, opener, faults>>
            ELSE /\ \A c \in Clients : opener[c].pc = "o_idle"
                 /\ LET dev == \E h \in handles : h.zv = 0 /\ h.live
                        closed == dev /\ zv_open_count > 0 IN
                    /\ zv_flags' = IF closed THEN zv_flags \ {"ZVOL_EXCL"} ELSE zv_flags
                    /\ zv_open_count' = IF closed THEN 0 ELSE zv_open_count
                    /\ zv_zilog' = IF closed THEN FALSE ELSE zv_zilog
                    /\ opener' = IF dev THEN [c \in Clients |-> [opener[c] EXCEPT !.refs = 0]]
                                 ELSE opener
                    /\ \E e \in Outcomes(RenameErrors) :
                         /\ Spend(e)
                         /\ handles' =
                              {[h EXCEPT !.live = (h.zv # 0 /\ h.live)] : h \in handles}
                              \cup (IF e = "OK" THEN {Handle("DEV", newname, 0)} ELSE {})
                 /\ hist' = [(IF \E h \in handles : h.zv = 0 /\ h.live /\ zv_open_count > 0
                               THEN zvol_last_close(hist, Renamer) ELSE hist)
                              EXCEPT !.renames = @ + 1]
                 /\ UNCHANGED <<pp_mediasize, pp_private>>
    /\ UNCHANGED <<zv_volmode, zv_volsize, zv_state, zv_provider, os_sync, zv_queue,
                   sl_readers, sl_writer, rangelock, store, bio, pc, wpc, wbp, dpc,
                   resizes, wakers, zv_state_lock, zvol_state_list, objset_owner,
                   creator>>

\* the descriptor, its locks and its consumers with refs open references:
\* provider or device node present, worker started for GEOM, ZIL not yet
\* open, old data in place
InitIo(modes, flagsets, nfaults, refs) ==
    /\ zv_volmode \in modes
    /\ zv_volsize = MaxVol
    /\ zv_flags \in flagsets
    /\ zv_open_count = refs
    /\ zv_zilog = FALSE
    /\ zv_state = 0
    /\ zv_queue = <<>>
    /\ zv_provider = (zv_volmode = "GEOM")
    /\ pp_private = (zv_volmode = "GEOM")
    /\ pp_mediasize = (IF zv_volmode = "GEOM" /\ refs > 0 THEN zv_volsize ELSE 0)
    /\ os_sync \in {"standard", "always"}
    /\ sl_readers = {}
    /\ sl_writer = Nobody
    /\ rangelock = {}
    /\ store = [i \in StoreDom |-> 2]
    /\ bio = [c \in Clients |-> NoBio]
    /\ pc = [c \in Clients |-> "idle"]
    /\ wpc = (IF zv_volmode = "GEOM" THEN "w_top" ELSE "w_none")
    /\ wbp = 0
    /\ dpc = "d_idle"
    /\ faults = nfaults
    /\ resizes = 0
    /\ wakers = {}
    /\ hist = [NoHist EXCEPT !.assigned = IF zv_volmode = "GEOM" /\ refs > 0
                                          THEN 1 ELSE 0,
                             !.objset = (refs > 0)]

\* a volume after zvol_create_minor_impl and a first open
InitOpen(modes, flagsets, nfaults) ==
    /\ InitIo(modes, flagsets, nfaults, 1)
    /\ MgmtInit

StrategyNext(b) ==
    \/ zvol_strategy_entry(b)
    \/ zvol_strategy_lock(b)
    \/ zvol_strategy_delete(b)
    \/ zvol_strategy_free(b)
    \/ zvol_strategy_io(b)
    \/ zvol_strategy_unlock(b)
    \/ zvol_strategy_sync(b)

GeomNext(b) ==
    \/ zvol_geom_start_enter(b)
    \/ zvol_geom_start_upgrade(b)
    \/ zvol_geom_start_downgrade(b)
    \/ zvol_geom_start_switch(b)
    \/ zvol_geom_start_enqueue(b)
    \/ zvol_geom_start_wakeup(b)

WorkerNext ==
    \/ zvol_geom_worker_top
    \/ zvol_geom_worker_enter
    \/ zvol_geom_worker_switch

CdevNext(b) ==
    \/ zvol_uio_entry(b)
    \/ zvol_uio_lock(b)
    \/ zvol_read_io(b)
    \/ zvol_write_io(b)
    \/ zvol_uio_unlock(b)
    \/ zvol_write_sync(b)
    \/ zvol_d_ioctl_entry(b)
    \/ zvol_d_ioctl_lock(b)
    \/ zvol_d_ioctl_delete(b)
    \/ zvol_d_ioctl_free(b)
    \/ zvol_d_ioctl_unlock(b)

IoNext ==
    \/ \E b \in Clients : StrategyNext(b)
    \/ \E b \in Clients : GeomNext(b)
    \/ \E b \in Clients : CdevNext(b)
    \/ WorkerNext

(* Spec: two consumers issue requests concurrently through every entry point *)
Init == InitOpen({"GEOM", "DEV"}, {{}, {"ZVOL_RDONLY"}}, MaxFaults)

Next ==
    \/ \E c \in Clients : Submit(c, Requests(c))
    \/ IoNext

Spec == Init /\ [][Next]_vars

(* SpecSeq: requests one after the other, with data patterns, while the      *)
(* volume is resized                                                         *)
SeqExtents ==
    {<<o, 1>> : o \in 0..MaxVol} \cup {<<0, MaxLen>>} \cup {<<o, 0>> : o \in 1..MaxVol}

SeqWrites == {<<"zero", FALSE>>, <<"one", TRUE>>, <<"ramp", TRUE>>}

SeqRequests(c) ==
    IF zv_volmode = "GEOM"
    THEN {NewBio(c, "geom", cmd, e[1], e[2], <<>>, FALSE, TRUE) :
             cmd \in {"BIO_READ", "BIO_DELETE"}, e \in SeqExtents}
         \cup {NewBio(c, "geom", "BIO_WRITE", e[1], e[2], Pattern(w[1], e[2]), FALSE, w[2]) :
             e \in SeqExtents, w \in SeqWrites}
         \cup {NewBio(c, "geom", "BIO_FLUSH", 0, 0, <<>>, FALSE, s) : s \in BOOLEAN}
    ELSE {NewBio(c, "cdev_strategy", cmd, e[1], e[2], <<>>, FALSE, TRUE) :
             cmd \in {"BIO_READ", "BIO_DELETE"}, e \in SeqExtents}
         \cup {NewBio(c, "cdev_strategy", "BIO_WRITE", e[1], e[2], Pattern(k, e[2]),
                      FALSE, TRUE) : e \in SeqExtents, k \in {"one", "ramp"}}
         \cup {NewBio(c, "cdev_read", "read", e[1], e[2], <<>>, FALSE, TRUE) :
             e \in SeqExtents}
         \cup {NewBio(c, "cdev_write", "write", e[1], e[2], Pattern("ramp", e[2]),
                      FALSE, TRUE) : e \in SeqExtents}
         \cup {NewBio(c, "cdev_ioctl", "DIOCGMEDIASIZE", 0, 0, <<>>, FALSE, TRUE)}

SubmitSeq(c) ==
    /\ \A d \in Clients : d < c => pc[d] = "done"
    /\ Submit(c, SeqRequests(c))

InitSeq == InitOpen({"GEOM", "DEV"}, {{}}, MaxFaults)

NextSeq ==
    \/ \E c \in Clients : SubmitSeq(c)
    \/ \E b \in Clients : StrategyNext(b)
    \/ \E b \in Clients : GeomNext(b)
    \/ \E b \in Clients : zvol_uio_entry(b)
    \/ \E b \in Clients : zvol_uio_lock(b)
    \/ \E b \in Clients : zvol_read_io(b)
    \/ \E b \in Clients : zvol_write_io(b)
    \/ \E b \in Clients : zvol_uio_unlock(b)
    \/ \E b \in Clients : zvol_write_sync(b)
    \/ \E b \in Clients : zvol_d_ioctl_entry(b)
    \/ WorkerNext
    \/ resize_begin
    \/ zvol_size_changed

SpecSeq == InitSeq /\ [][NextSeq]_vars

(* SpecLife: the last reference is dropped and the volume is destroyed while *)
(* requests may still be queued or running                                   *)
LifeRequests(c) ==
    IF zv_volmode = "GEOM"
    THEN {NewBio(c, "geom", cmd, 0, 1, IF cmd = "BIO_WRITE" THEN <<1>> ELSE <<>>,
                 FALSE, s) :
             cmd \in {"BIO_READ", "BIO_WRITE", "BIO_DELETE"}, s \in BOOLEAN}
         \cup {NewBio(c, "geom", "BIO_FLUSH", 0, 0, <<>>, FALSE, s) : s \in BOOLEAN}
    ELSE {NewBio(c, "cdev_strategy", "BIO_READ", 0, 1, <<>>, FALSE, TRUE),
          NewBio(c, "cdev_strategy", "BIO_WRITE", 0, 1, <<1>>, FALSE, TRUE)}

ClientNext(b) == StrategyNext(b) \/ GeomNext(b)

WorkerLife == WorkerNext \/ zvol_geom_worker_exit

DestroyNext ==
    \/ zvol_os_clear_private
    \/ zvol_os_clear_private_wait
    \/ zvol_free_locks
    \/ zvol_free_dev
    \/ zvol_free_mem

InitLife == InitOpen({"GEOM", "DEV"}, {{}}, 0)

NextLife ==
    \/ \E c \in Clients : Submit(c, LifeRequests(c))
    \/ \E b \in Clients : ClientNext(b)
    \/ WorkerLife
    \/ zvol_close
    \/ DestroyNext

SpecLife == InitLife /\ [][NextLife]_vars

\* every context that can run keeps running: the consumers' handlers, the
\* worker thread and the thread that destroys the volume; the dataset has
\* sync=always, so that every write request also commits the log
InitLive == InitLife /\ os_sync = "always"

LiveLife ==
    /\ InitLive /\ [][NextLife]_vars
    /\ \A b \in Clients : WF_vars(ClientNext(b))
    /\ WF_vars(WorkerLife)
    /\ WF_vars(DestroyNext)

(* SpecCreate: tasks run zvol_create_minor_impl concurrently, before any     *)
(* volume is linked                                                          *)
CreateNext(c) ==
    \/ zvol_create_minor_call(c)
    \/ zvol_create_minor_find(c)
    \/ zvol_create_minor_own(c)
    \/ zvol_create_minor_info(c)
    \/ zvol_create_minor_alloc(c)
    \/ zvol_create_minor_disown(c)
    \/ zvol_create_minor_insert(c)

InitCreate ==
    /\ InitIo({"GEOM"}, {{}}, MaxFaults, 0)
    /\ zv_state_lock = Nobody
    /\ zv_name = "none"
    /\ handles = {}
    /\ opener = [c \in Clients |-> NoOpen]
    /\ zvol_state_list = {}
    /\ objset_owner = [n \in Names |-> Nobody]
    /\ creator = [c \in Clients |-> NoCreate]

NextCreate == \E c \in Clients : CreateNext(c)

SpecCreate == InitCreate /\ [][NextCreate]_vars

(* SpecOpen: a volume that zvol_create_minor_impl has just made is opened,   *)
(* closed, renamed and resized                                               *)
OpenNext(c) ==
    \/ zvol_geom_access(c)
    \/ zvol_d_call(c)
    \/ zvol_open_enter(c)
    \/ zvol_open_wait(c)
    \/ zvol_open_relock(c)
    \/ zvol_open_body(c)
    \/ zvol_close_enter(c)
    \/ zvol_close_relock(c)
    \/ zvol_close_body(c)

InitNew ==
    /\ InitIo({"GEOM", "DEV"}, {{}, {"ZVOL_RDONLY"}}, MaxFaults, 0)
    /\ os_sync = "standard"
    /\ MgmtInit

NextOpen ==
    \/ \E c \in Clients : OpenNext(c)
    \/ zvol_suspend
    \/ zvol_size_changed
    \/ zvol_rename_minor

SpecOpen == InitNew /\ [][NextOpen]_vars

(* SpecSignal: as SpecLife, and the destroy signal may be given twice       *)
NextSignal ==
    \/ NextLife
    \/ zvol_os_clear_private_again

SpecSignal == InitLife /\ [][NextSignal]_vars

(* SpecLock: consumers of a GEOM volume open and close it and send BIO_FLUSH *)
(* while the volume is suspended and resumed                                 *)
LockRequests(c) ==
    {NewBio(c, "geom", "BIO_FLUSH", 0, 0, <<>>, FALSE, s) : s \in BOOLEAN}

InitLock ==
    /\ InitIo({"GEOM"}, {{}}, 0, 0)
    /\ os_sync = "standard"
    /\ MgmtInit

NextLock ==
    \/ \E c \in Clients : zvol_geom_access(c)
    \/ \E c \in Clients : zvol_open_enter(c)
    \/ \E c \in Clients : zvol_open_wait(c)
    \/ \E c \in Clients : zvol_open_relock(c)
    \/ \E c \in Clients : zvol_open_body(c)
    \/ \E c \in Clients : zvol_close_enter(c)
    \/ \E c \in Clients : zvol_close_relock(c)
    \/ \E c \in Clients : zvol_close_body(c)
    \/ Submit(1, LockRequests(1))
    \/ \E b \in Clients : GeomNext(b)
    \/ WorkerNext
    \/ zvol_suspend
    \/ zvol_resume

SpecLock == InitLock /\ [][NextLock]_vars

(* SpecReopen: consumers open and close a new volume, which may be          *)
(* read-only, and send BIO_FLUSH, while the volume is suspended and resumed  *)
ReopenRequests(c) == IF zv_volmode = "GEOM" THEN LockRequests(c) ELSE {}

NextReopen ==
    \/ \E c \in Clients : OpenNext(c)
    \/ Submit(1, ReopenRequests(1))
    \/ \E b \in Clients : GeomNext(b)
    \/ WorkerNext
    \/ zvol_suspend
    \/ zvol_resume

SpecReopen == InitNew /\ [][NextReopen]_vars

(* SpecDetach: consumers open and close a new GEOM volume, which is          *)
(* suspended and resumed, and destroyed once nobody has it open; a consumer  *)
(* that GEOM has let through zvol_geom_access may reach zvol_open after      *)
(* pp->private was cleared                                                   *)
InitDetach ==
    /\ InitIo({"GEOM"}, {{}, {"ZVOL_RDONLY"}}, MaxFaults, 0)
    /\ os_sync = "standard"
    /\ MgmtInit

NextDetach ==
    \/ \E c \in Clients : zvol_geom_access(c)
    \/ \E c \in Clients : zvol_open_enter(c)
    \/ \E c \in Clients : zvol_open_wait(c)
    \/ \E c \in Clients : zvol_open_relock(c)
    \/ \E c \in Clients : zvol_open_body(c)
    \/ \E c \in Clients : zvol_close_enter(c)
    \/ \E c \in Clients : zvol_close_relock(c)
    \/ \E c \in Clients : zvol_close_body(c)
    \/ zvol_suspend
    \/ zvol_resume
    \/ zvol_geom_worker_top
    \/ zvol_geom_worker_exit
    \/ DestroyNext

SpecDetach == InitDetach /\ [][NextDetach]_vars

(* ============================================================ properties *)
\* request r is handled by zvol_strategy: every bio of the character device,
\* and the BIO_READ / BIO_WRITE / BIO_DELETE of a GEOM consumer
ReachedStrategy(r) ==
    \/ r.path = "cdev_strategy"
    \/ r.path = "geom" /\ r.cmd \in {"BIO_READ", "BIO_WRITE", "BIO_DELETE"}

\* the calls a request rejected before the range lock must not have made
RangeStoreLog ==
    {"rangelock_enter", "dmu_read", "dmu_tx", "dmu_write", "dmu_free",
     "zvol_log_write", "zvol_log_truncate", "zil_commit"}

Rejected(r, error) ==
    /\ r.error = error
    /\ r.bio_completed = 0
    /\ r.calls \cap RangeStoreLog = {}

OutOfRange(r) == r.bio_length > 0 /\ r.bio_offset >= zv_volsize

\* C1 as stated: every request that zvol_strategy has completed and that has
\* length > 0 and offset >= the volume size ended with EIO, zero bytes, and
\* without range lock, store call or log call.
C1_OutOfRangeEveryRequest ==
    \A b \in Clients :
        (pc[b] = "done" /\ ReachedStrategy(bio[b]) /\ OutOfRange(bio[b]))
            => Rejected(bio[b], "EIO")

\* C1 as amended: the same for every READ, and for every WRITE or DELETE on a
\* volume that is not read-only (the read-only check comes first).
C1_OutOfRange ==
    \A b \in Clients :
        (/\ pc[b] = "done" /\ ReachedStrategy(bio[b]) /\ OutOfRange(bio[b])
         /\ bio[b].cmd \in {"BIO_READ", "BIO_WRITE", "BIO_DELETE"}
         /\ (bio[b].cmd = "BIO_READ" \/ "ZVOL_RDONLY" \notin zv_flags))
            => Rejected(bio[b], "EIO")

C1_Witness ==
    \E b \in Clients :
        /\ pc[b] = "done" /\ ReachedStrategy(bio[b]) /\ OutOfRange(bio[b])
        /\ bio[b].cmd = "BIO_WRITE" /\ "ZVOL_RDONLY" \notin zv_flags
        /\ bio[b].error = "EIO"

\* positions between rangelock_enter() and rangelock_exit() at which the next
\* step is a store call
IoPcs == {"s_delete", "s_free", "s_io", "u_io", "i_delete", "i_free"}

IsRead(r) == r.cmd \in {"BIO_READ", "read"}

BioOverlap(r1, r2) ==
    Overlap(r1.bio_offset, r1.bio_length, r2.bio_offset, r2.bio_length)

\* C2: two requests with overlapping byte ranges are both between range-lock
\* acquisition and release only if both are READs; a request is about to make a
\* store call only while it holds its region, and then no overlapping request
\* holds a region unless both are READs.
C2_RangeExclusion ==
    /\ \A b \in Clients : pc[b] \in IoPcs => Held(b)
    /\ \A b1, b2 \in Clients :
         (b1 # b2 /\ Held(b1) /\ Held(b2) /\ BioOverlap(bio[b1], bio[b2]))
             => (IsRead(bio[b1]) /\ IsRead(bio[b2]))

C2_Witness ==
    \E b1, b2 \in Clients :
        /\ b1 # b2 /\ BioOverlap(bio[b1], bio[b2])
        /\ pc[b1] \in IoPcs /\ ~IsRead(bio[b1])
        /\ pc[b2] \in {"s_lock", "u_lock", "i_lock"}
        /\ bio[b1].ctx # bio[b2].ctx

\* C4: when the completion of a synchronous-class WRITE with a logged chunk is
\* delivered, zil_commit() has returned after the last chunk was logged, and it
\* ran after the range lock was released; while the commit is pending the range
\* lock is no longer held.
IsWrite(r) == r.cmd \in {"BIO_WRITE", "write"}

SyncClass(r) == r.io_sync \/ os_sync = "always"

C4_SyncWriteOrder ==
    \A b \in Clients :
        LET r == bio[b] IN
        (IsWrite(r) /\ SyncClass(r) /\ "zvol_log_write" \in r.calls)
            => /\ pc[b] \in {"s_sync", "u_sync"} => ~Held(b)
               /\ r.delivered > 0 =>
                     (r.committed /\ ~r.commit_locked /\ ~r.early)

C4_Witness ==
    \E b \in Clients :
        /\ pc[b] = "done" /\ bio[b].cmd = "BIO_WRITE" /\ os_sync = "always"
        /\ bio[b].bio_length > zvol_maxphys
        /\ bio[b].bio_completed = bio[b].bio_length
        /\ bio[b].committed /\ bio[b].delivered = 1

\* C7: no request is completed twice; a request whose handler has finished was
\* completed exactly once; an enqueued request is still in the queue or with the
\* worker until the worker completes it, and the submitter does not complete it.
C7_ExactlyOneCompletion ==
    \A b \in Clients :
        LET r == bio[b] IN
        /\ r.delivered <= 1
        /\ pc[b] = "done" => r.delivered = 1
        /\ r.delivered = 1 => pc[b] = "done"
        /\ pc[b] = "queued" =>
              (r.delivered = 0 /\ (wbp = b \/ \E i \in DOMAIN zv_queue : zv_queue[i] = b))
        /\ (r.enqueued /\ r.delivered = 1) => r.by = Worker
        /\ (~r.enqueued /\ r.delivered = 1) => r.by = b

C7_Witness ==
    \E b1, b2 \in Clients :
        /\ pc[b1] = "done" /\ bio[b1].enqueued /\ bio[b1].by = Worker
        /\ bio[b1].error = "ENOSPC"
        /\ pc[b2] = "done" /\ bio[b2].cmd = "BIO_GETATTR"

\* C8: on a read-only volume every BIO_WRITE and BIO_DELETE that zvol_strategy
\* has completed ended with EROFS, zero bytes and no range lock, transaction,
\* store or log call; no BIO_READ ended with EROFS.
C8_ReadOnly ==
    \A b \in Clients :
        (pc[b] = "done" /\ ReachedStrategy(bio[b]) /\ "ZVOL_RDONLY" \in zv_flags)
            => /\ bio[b].cmd \in {"BIO_WRITE", "BIO_DELETE"} => Rejected(bio[b], "EROFS")
               /\ bio[b].cmd = "BIO_READ" => bio[b].error # "EROFS"

C8_Witness ==
    \E b1, b2 \in Clients :
        /\ "ZVOL_RDONLY" \in zv_flags
        /\ pc[b1] = "done" /\ bio[b1].cmd = "BIO_DELETE" /\ bio[b1].error = "EROFS"
        /\ bio[b1].enqueued
        /\ pc[b2] = "done" /\ bio[b2].cmd = "BIO_READ" /\ bio[b2].bio_completed > 0

\* C3 as stated: every store or log call of a request is made while the context
\* that executes it holds zv_suspend_lock, and while a resize holds the lock as
\* writer no request is between its first store call and its completion.
C3_SuspendHeld ==
    /\ \A b \in Clients : bio[b].unprotected = {}
    /\ sl_writer = Resizer =>
          \A b \in Clients : pc[b] \notin (IoPcs \cup {"s_sync", "u_sync"})

\* a WRITE and the READ that follows it, same offset and length, inside the
\* volume, whose size is not changed from the WRITE's submission to the READ's
\* completion
RoundTrip(w, r) ==
    /\ pc[w] = "done" /\ pc[r] = "done"
    /\ bio[w].epoch = bio[r].done_epoch
    /\ IsWrite(bio[w]) /\ bio[w].error = "OK"
    /\ IsRead(bio[r])
    /\ bio[r].bio_offset = bio[w].bio_offset
    /\ bio[r].bio_length = bio[w].bio_length
    /\ bio[w].bio_offset + bio[w].bio_length <= bio[w].volsize
    /\ bio[r].bio_offset + bio[r].bio_length <= bio[r].volsize

Returns(w, r) ==
    /\ bio[r].buf = bio[w].bio_data
    /\ bio[r].bio_completed = bio[r].bio_length

AfterResize(b) == pc[b] = "done" /\ bio[b].epoch = resizes

AtEnd(r) == r.bio_offset = hist.volsize

\* what C10 says of the capacity query, of zero-length requests and of the range
\* check of zvol_strategy
ResizeVisibleCommon(r) ==
    /\ r.cmd = "DIOCGMEDIASIZE" => r.value = hist.volsize
    /\ (ReachedStrategy(r) /\ r.cmd = "BIO_READ" /\ r.bio_length > 0 /\ AtEnd(r))
          => Rejected(r, "EIO")
    /\ (ReachedStrategy(r) /\ r.bio_length = 0 /\ AtEnd(r))
          => "rangelock_enter" \in r.calls
    /\ (r.path = "cdev_read" /\ r.bio_length = 0 /\ AtEnd(r)) => r.error = "OK"

LastSector(r) ==
    /\ IsRead(r) /\ r.bio_length = 1 /\ r.bio_offset = hist.volsize - 1
    /\ (ReachedStrategy(r) \/ r.path = "cdev_read")

C5_DestroyRetires ==
    /\ [](hist.g_wither_geom <= 1)
    /\ (zv_volmode = "GEOM" /\ dpc = "d_wait")
          ~> (dpc = "d_done" /\ zv_state = 2 /\ hist.woken /\ hist.g_wither_geom = 1)

C5_Witness ==
    /\ zv_volmode = "GEOM" /\ dpc = "d_done" /\ zv_state = 2
    /\ hist.woken /\ hist.g_wither_geom = 1 /\ wpc = "w_dead"
    /\ \E b \in Clients : bio[b].enqueued /\ pc[b] = "done"

Resources == {"zv_suspend_lock", "zv_rangelock", "zv_provider", "zv_dev",
              "zv_state_lock", "zv"}

\* C6 as stated: nothing is released before zv_state = 2 was observed nor with an
\* open reference, and the suspend lock and the range lock are not destroyed
\* while the worker thread exists or zv_state is 0 or 1.
C6_ReleaseAfterRetiredEveryVolume ==
    /\ hist.released # {} => (zv_state = 2 /\ hist.woken /\ zv_open_count = 0)
    /\ ({"zv_suspend_lock", "zv_rangelock"} \cap hist.released) # {}
          => (wpc \in {"w_dead", "w_none"} /\ zv_state = 2)

\* C6 as amended: that holds for a GEOM volume, where the worker has then made
\* its last access to the descriptor (it may not yet have called
\* kthread_exit()); a DEV volume has no worker, stays in state 0, and is
\* released with no open reference.
C6_ReleaseAfterRetired ==
    /\ hist.released \subseteq Resources
    /\ hist.released # {} => zv_open_count = 0
    /\ (zv_volmode = "GEOM" /\ hist.released # {})
          => (zv_state = 2 /\ hist.woken /\ wpc \in {"w_exiting", "w_dead"})
    /\ (zv_volmode = "DEV" /\ hist.released # {})
          => (zv_state = 0 /\ wpc = "w_none")

C6_Witness ==
    /\ zv_volmode = "GEOM" /\ dpc = "d_done"
    /\ hist.released = Resources \ {"zv_dev"}
    /\ \E b \in Clients : pc[b] = "done" /\ bio[b].error = "ENXIO"

(* ----------------------------------------------------------------- C11 *)
\* C11: the registry never holds two descriptors with the same name; a create
\* for a name that is already linked returns EEXIST and has left the registry
\* as it was
C11_UniqueNames ==
    /\ \A z1, z2 \in zvol_state_list : z1.name = z2.name => z1 = z2
    /\ \A c \in Clients :
         creator[c].ret = "EEXIST" => creator[c].found \subseteq zvol_state_list

\* two tasks were both past the lookup for the same name when the first linked
C11_Race ==
    \E c, d \in Clients :
        /\ c # d
        /\ creator[c].name = creator[d].name
        /\ creator[c].pc = "c_done" /\ creator[c].ret = "0" /\ creator[c].error = "OK"
        /\ creator[d].pc = "c_done" /\ creator[d].ret = "0" /\ creator[d].error = "OK"

(* ----------------------------------------------------------------- C12 *)
\* C12: whatever opens, closes, exclusive opens and renames have run, the open
\* count is not negative, and while ZVOL_EXCL is set the open count is 1
C12_OpenCount ==
    /\ zv_open_count >= 0
    /\ "ZVOL_EXCL" \in zv_flags => zv_open_count = 1

\* an exclusive open holds the volume and a second open has been refused
C12_Witness ==
    /\ "ZVOL_EXCL" \in zv_flags
    /\ zv_open_count = 1
    /\ \E c, d \in Clients :
         /\ opener[c].refs = 1
         /\ opener[d].pc = "o_idle" /\ opener[d].err = "EBUSY" /\ opener[d].refs = 0

(* ----------------------------------------------------------------- C13 *)
\* C13: zv_state only ever goes from 0 (active) to 1 (draining) and from 1 to
\* 2 (retired); no step moves it back or past a value
C13_StateForward ==
    [][\/ zv_state' = zv_state
       \/ zv_state = 0 /\ zv_state' = 1
       \/ zv_state = 1 /\ zv_state' = 2]_vars

(* ----------------------------------------------------------------- C14 *)
\* every thread the volume knows: consumers in an I/O call, the worker,
\* consumers in an open or close call
Threads == Ctx \cup {Oc(c) : c \in Clients}

\* the thread is about to block in rw_enter(&zv->zv_suspend_lock, ...)
WaitsSuspend(x) ==
    \/ x \in Clients /\ pc[x] \in {"gs_enter", "gs_upgrade"} /\ bio[x].ctx = x
    \/ x = Worker /\ wpc = "w_enter"
    \/ \E c \in Clients : x = Oc(c) /\ opener[c].pc \in {"o_wait", "cl_wait"}

\* the thread is about to block in mutex_enter(&zv->zv_state_lock)
WaitsState(x) ==
    \/ x \in Clients /\ pc[x] = "gs_enqueue"
    \/ x = Worker /\ wpc = "w_top"
    \/ \E c \in Clients :
         x = Oc(c) /\ opener[c].pc \in {"o_enter", "o_relock", "cl_enter", "cl_relock"}

HoldsSuspend(x) == x \in sl_readers \/ sl_writer = x

\* C14: no thread waits for zv_suspend_lock while it holds zv_state_lock, and
\* so no thread that holds zv_state_lock and waits for zv_suspend_lock faces a
\* holder of zv_suspend_lock that waits for zv_state_lock
C14_LockOrder ==
    /\ \A x \in Threads : WaitsSuspend(x) => zv_state_lock # x
    /\ ~\E x, y \in Threads :
          /\ x # y
          /\ zv_state_lock = x /\ WaitsSuspend(x)
          /\ HoldsSuspend(y) /\ WaitsState(y)

\* a close waits for the suspended volume with zv_state_lock released, while
\* another open holds zv_state_lock and a queued request waits for the worker
C14_Witness ==
    \E c, d \in Clients :
        /\ c # d
        /\ opener[c].pc = "cl_wait"
        /\ sl_writer = Resizer
        /\ zv_state_lock = Oc(d)
        /\ \E b \in Clients : pc[b] = "queued"

(* ----------------------------------------------------------------- C15 *)
\* C15: of two requests put on the queue, the one inserted first has had its
\* completion delivered by the time the worker takes the other
C15_Fifo ==
    \A a, b \in Clients :
        (/\ bio[a].enqueued /\ bio[b].enqueued
         /\ bio[a].seq < bio[b].seq
         /\ bio[b].ctx = Worker)
        => (bio[a].delivered = 1 /\ bio[a].by = Worker)

\* two requests went through the queue and the worker has completed both
C15_Witness ==
    \E a, b \in Clients :
        /\ bio[a].enqueued /\ bio[b].enqueued
        /\ bio[a].seq = 1 /\ bio[b].seq = 2
        /\ ~bio[b].first
        /\ pc[a] = "done" /\ pc[b] = "done"
        /\ bio[a].by = Worker /\ bio[b].by = Worker

(* ----------------------------------------------------------------- C16 *)
\* calls in which the calling thread may be suspended
SuspendingCalls ==
    {"rw_enter_reader", "rw_enter_writer", "zil_open", "dmu_tx", "zil_commit"}

\* C16: for a BIO_READ, BIO_WRITE, BIO_DELETE or BIO_FLUSH handed over by a
\* thread that cannot sleep, that thread makes no call that may suspend it
C16_SubmitterNeverSleeps ==
    \A b \in Clients :
        (/\ bio[b].path = "geom"
         /\ ~bio[b].can_sleep
         /\ Deferrable(bio[b].cmd)
         /\ bio[b].ctx = b)
        => bio[b].calls \cap SuspendingCalls = {}

(* ----------------------------------------------------------------- C17 *)
\* the live handles of the volume
LiveHandles(hs) == {h \in hs : h.zv = 0 /\ h.live}

\* C17: a rename leaves the open count and the flags as they were, and after
\* it exactly one live handle exists for the volume, under the new name
C17_RenameFrame ==
    [][hist'.renames # hist.renames =>
         /\ zv_open_count' = zv_open_count
         /\ zv_flags' = zv_flags
         /\ Cardinality(LiveHandles(handles')) = 1
         /\ \A h \in LiveHandles(handles') : h.name = zv_name']_vars

(* ----------------------------------------------------------------- C18 *)
\* C18: no completion and no return value of an I/O operation carries ECKSUM
C18_NoChecksumError ==
    \A b \in Clients : bio[b].delivered >= 1 => bio[b].error # "ECKSUM"

(* ----------------------------------------------------------------- C19 *)
\* a step taken for the READ request of consumer b
ReadStep(b) ==
    /\ IsRead(bio[b]) /\ IsRead(bio'[b])
    /\ (pc'[b] # pc[b] \/ bio'[b] # bio[b])

\* store, log, size and flags are as before
ReadFrame ==
    /\ store' = store
    /\ zv_zilog' = zv_zilog
    /\ zv_volsize' = zv_volsize
    /\ zv_flags' = zv_flags

\* the READ of b has written nothing to the store or the log
ReadOnlyCalls(r) ==
    r.calls \cap {"dmu_tx", "dmu_write", "dmu_free", "zvol_log_write",
                  "zvol_log_truncate", "zil_commit", "zil_open"} = {}

\* b repeats the READ of a, and no write, delete or resize lies between the
\* submission of the first and the completion of the second
SameReadTwice(a, b) ==
    /\ b = a + 1
    /\ pc[a] = "done" /\ pc[b] = "done"
    /\ IsRead(bio[a]) /\ IsRead(bio[b])
    /\ bio[a].path = bio[b].path
    /\ bio[a].bio_offset = bio[b].bio_offset
    /\ bio[a].bio_length = bio[b].bio_length
    /\ bio[a].epoch = bio[b].done_epoch

SameResult(a, b) ==
    /\ bio[a].buf = bio[b].buf
    /\ bio[a].bio_completed = bio[b].bio_completed
    /\ bio[a].resid = bio[b].resid

\* dmu_read() failed for the request
StoreReadFailed(r) == "dmu_read" \in r.calls /\ r.error = "EIO"

SizeUpdateEffect ==
    /\ zv_volsize' = hist'.volsize
    /\ IF hist.assigned = 0
       THEN hist'.g_resize_provider = hist.g_resize_provider
       ELSE /\ hist'.g_resize_provider = hist.g_resize_provider + 1
            /\ hist'.g_resize_size = zv_volsize'

\* C20 as stated, for every volume.
C20_ResizeEventEveryVolume ==
    [][resizes' = resizes + 1 => SizeUpdateEffect]_vars

\* C20 as amended: the same for a GEOM volume that has its provider.
C20_ResizeEvent ==
    [][(resizes' = resizes + 1 /\ zv_volmode = "GEOM" /\ zv_provider)
          => SizeUpdateEffect]_vars

\* a new GEOM volume was resized twice: once silently, once with an event
C20_Witness ==
    /\ zv_volmode = "GEOM"
    /\ resizes = MaxUpdates
    /\ hist.g_resize_provider = 1
    /\ hist.g_resize_size = zv_volsize
    /\ pp_mediasize = zv_volsize

(* ----------------------------------------------------------------- C21 *)
\* the open call of consumer c returns EROFS or EBUSY in this step
OpenRefused(c) ==
    /\ opener[c].pc = "o_body"
    /\ opener'[c].pc = "o_idle"
    /\ opener'[c].err \in {"EROFS", "EBUSY"}

\* what the open had opened is closed again
ClosedAgain == zv_open_count = 0 => (~hist'.objset /\ ~zv_zilog')

C22_SuspendHeldForFirstAndLast == hist.unheld = {}

(* ----------------------------------------------------------------- C23 *)
\* the worker has not retired
WorkerAlive == wpc \in {"w_top", "w_sleep", "w_enter", "w_strategy", "w_switch"}

\* C23: a request that is in the queue while the worker has not retired is
\* eventually taken from the queue and completed by the worker
C23_NoLostWakeup ==
    \A b \in Clients :
        (pc[b] = "queued" /\ WorkerAlive)
            ~> (pc[b] = "done" /\ bio[b].delivered = 1 /\ bio[b].by = Worker)

\* the worker sleeps, two requests are queued, and the wakeup_one() of the
\* submitter that found the queue empty is still to come
C23_Witness ==
    \E a, b \in Clients :
        /\ a # b
        /\ wpc = "w_sleep"
        /\ zv_queue = <<a, b>>
        /\ wakers = {a}
        /\ bio[a].first /\ ~bio[b].first

(* ----------------------------------------------------------------- C24 *)
\* the worker leaves its loop in this step
WorkerRetires == wpc # "w_exiting" /\ wpc' = "w_exiting"

\* the step that sets zv_state to 2 is the worker's, taken at the top of its
\* loop with the queue empty and zv_state 1; the worker leaves its loop in
\* no other step
RetiresOnlyDrained ==
    [][((zv_state # 2 /\ zv_state' = 2) \/ WorkerRetires)
          => (/\ wpc = "w_top" /\ WorkerRetires
              /\ zv_state = 1 /\ zv_state' = 2
              /\ zv_queue = <<>> /\ zv_queue' = <<>>)]_vars

\* C24: the worker retires only in a step in which it found the queue empty
\* with zv_state 1, never with zv_state 0 and never with a request queued, and
\* whenever zv_state is 2 the queue is empty
C24_RetiredQueueEmpty ==
    /\ RetiresOnlyDrained
    /\ [](zv_state = 2 => zv_queue = <<>>)

(* ----------------------------------------------------------------- C25 *)
\* the worker has run request r against the store: range lock, store call,
\* completion with the bytes moved
Executed(r) ==
    /\ r.by = Worker
    /\ r.error # "ENXIO"
    /\ "rangelock_enter" \in r.calls
    /\ r.calls \cap {"dmu_read", "dmu_tx"} # {}

\* C25: a BIO_READ, BIO_WRITE or BIO_DELETE that was in the queue when
\* zv_state was set to 1 is completed before the worker retires, and it is
\* completed by the worker running it against the store, never with ENXIO
C25_DestroyDrains ==
    /\ [](\A b \in Clients : (zv_state = 2 /\ pc[b] # "done") => ~bio[b].signalled)
    /\ [][\A b \in Clients :
            (/\ bio[b].signalled
             /\ bio[b].cmd \in {"BIO_READ", "BIO_WRITE", "BIO_DELETE"}
             /\ pc[b] # "done" /\ pc'[b] = "done") => Executed(bio'[b])]_vars

(* ----------------------------------------------------------------- C26 *)
\* the bytes of the chunks of q that succeeded
RECURSIVE Moved(_)
Moved(q) ==
    IF q = <<>> THEN 0
    ELSE (IF Head(q).ok THEN Head(q).size ELSE 0) + Moved(Tail(q))

\* a BIO_READ or BIO_WRITE that zvol_strategy has completed after at least
\* one chunk
ChunkedDone(b) ==
    /\ pc[b] = "done" /\ ReachedStrategy(bio[b])
    /\ bio[b].cmd \in {"BIO_READ", "BIO_WRITE"}
    /\ bio[b].chunks # <<>>

\* no chunk larger than zvol_maxphys; none after a failed one; a failed write
\* chunk aborted and not logged; the count is that of the chunks that
\* succeeded, and a failure is reported together with it
ChunkAccount(r) ==
    LET q == r.chunks
        n == Len(q) IN
    /\ \A i \in 1..n : q[i].size <= zvol_maxphys /\ q[i].size > 0
    /\ \A i \in 1..(n - 1) : q[i].ok
    /\ r.bio_completed = Moved(q)
    /\ ~q[n].ok =>
          /\ r.error \notin {"OK", "ECKSUM"}
          /\ r.cmd = "BIO_WRITE" =>
                (q[n].calls \cap {"dmu_write", "zvol_log_write", "dmu_tx_commit"} = {}
                 /\ "dmu_tx_abort" \in q[n].calls)

\* C26 as stated: that, and the whole length is reported when no chunk failed.
C26_PartialCountEveryRequest ==
    \A b \in Clients :
        ChunkedDone(b) =>
            /\ ChunkAccount(bio[b])
            /\ (\A i \in DOMAIN bio[b].chunks : bio[b].chunks[i].ok)
                  => bio[b].bio_completed = bio[b].bio_length

\* C26 as amended: the whole length is reported when no chunk failed and the
\* request ends inside the volume; one that runs past the end stops at the
\* first chunk boundary at or past the end, and reports EINVAL when that
\* boundary is past the end and bytes are left.
C26_PartialCount ==
    \A b \in Clients :
        LET r == bio[b] IN
        ChunkedDone(b) =>
            /\ ChunkAccount(r)
            /\ ((\A i \in DOMAIN r.chunks : r.chunks[i].ok)
                 /\ r.bio_offset + r.bio_length <= r.volsize)
                  => (r.bio_completed = r.bio_length /\ r.error = "OK")
            /\ ((\A i \in DOMAIN r.chunks : r.chunks[i].ok)
                 /\ r.bio_completed < r.bio_length)
                  => (/\ r.bio_offset + r.bio_completed >= r.volsize
                      /\ r.error = (IF r.bio_offset + r.bio_completed > r.volsize
                                    THEN "EINVAL" ELSE "OK"))

\* a write of several chunks whose second chunk failed: the first chunk is
\* reported together with the error
C26_Witness ==
    \E b \in Clients :
        /\ ChunkedDone(b) /\ bio[b].cmd = "BIO_WRITE"
        /\ Len(bio[b].chunks) = 2
        /\ ~bio[b].chunks[2].ok
        /\ bio[b].bio_completed = zvol_maxphys
        /\ bio[b].error = "ENOSPC"

(* ----------------------------------------------------------------- C27 *)
DeleteOrder ==
    <<"dmu_tx_assign", "zvol_log_truncate", "dmu_tx_commit", "dmu_free_long_range">>

\* b holds the WRITER range lock on the whole range of its request
HoldsWriter(b) ==
    \E h \in rangelock :
        /\ h.b = b /\ h.mode = "RL_WRITER"
        /\ h.off = bio[b].bio_offset /\ h.len = bio[b].bio_length

IsDelete(r) == r.cmd \in {"BIO_DELETE", "DIOCGDELETE"}

\* the calls of a delete are a prefix of the order, or the aborted
\* transaction alone; after an abort the request ends with the error and
\* nothing served, after an assignment BIO_DELETE reports its whole length
DeleteAccount(b) ==
    LET r == bio[b]
        q == r.events IN
    /\ \/ q = SubSeq(DeleteOrder, 1, Len(q))
       \/ q = <<"dmu_tx_assign", "dmu_tx_abort">>
    /\ (pc[b] = "done" /\ q # <<>>) =>
          IF q = <<"dmu_tx_assign", "dmu_tx_abort">>
          THEN r.error # "OK" /\ r.bio_completed = 0
          ELSE q = DeleteOrder
               /\ (r.cmd = "BIO_DELETE" => r.bio_completed = r.bio_length)

\* C27: a delete assigns its transaction, logs the truncation, commits and
\* frees the range in that order under the WRITER range lock on its range; a
\* failed assignment aborts, logs and frees nothing and reports the error with
\* zero bytes; a successful one reports the whole length.
C27_DeleteOrder ==
    /\ [](\A b \in Clients : IsDelete(bio[b]) => DeleteAccount(b))
    /\ [][\A b \in Clients :
            Len(bio'[b].events) > Len(bio[b].events) =>
                /\ IsDelete(bio[b])
                /\ HoldsWriter(b)
                /\ (\A i \in DOMAIN bio'[b].events :
                        bio'[b].events[i] # "dmu_free_long_range")
                      => store' = store]_vars

\* a BIO_DELETE whose transaction was not assigned, and one whose range was
\* freed
C27_Witness ==
    /\ \E b \in Clients :
          /\ pc[b] = "done" /\ bio[b].cmd = "BIO_DELETE"
          /\ bio[b].events = <<"dmu_tx_assign", "dmu_tx_abort">>
          /\ bio[b].error = "ENOSPC" /\ bio[b].bio_length > 0
    /\ \E b \in Clients :
          /\ pc[b] = "done" /\ IsDelete(bio[b])
          /\ bio[b].events = DeleteOrder

(* ----------------------------------------------------------------- C28 *)
\* a BIO_FLUSH that has been completed by a handler that found the volume
FlushServed(b) ==
    /\ pc[b] = "done" /\ bio[b].cmd = "BIO_FLUSH"
    /\ bio[b].path \in {"geom", "cdev_strategy"}
    /\ bio[b].error # "ENXIO"

\* C28: a BIO_FLUSH, inline in zvol_geom_start, in the worker or in
\* zvol_strategy, read-only volume or not, takes no range lock, makes no store
\* call, commits the log and is completed without an error.
C28_FlushCommitsOnly ==
    \A b \in Clients :
        FlushServed(b) =>
            /\ bio[b].calls \cap (RangeStoreLog \ {"zil_commit"}) = {}
            /\ bio[b].committed
            /\ bio[b].error = "OK"
            /\ bio[b].delivered = 1

(* ----------------------------------------------------------------- C29 *)
\* the calls handed zv->zv_zilog that are made for request b in this step
LogsNow(b) == (bio'[b].calls \cap LogCalls) \ bio[b].calls

\* request b opens the log in this step
OpensLog(b) == "zil_open" \in bio'[b].calls /\ "zil_open" \notin bio[b].calls

\* C29: the log is opened only while the handle is null and by a thread that
\* holds zv_suspend_lock as writer; every WRITE, DELETE or FLUSH hands the
\* open handle to the log; the handle, once set, stays while zv_state is 0 or 1.
C29_LogOpenedOnce ==
    /\ [][\A b \in Clients : LogsNow(b) # {} => zv_zilog]_vars
    /\ [][\A b \in Clients :
            OpensLog(b) => (~zv_zilog /\ zv_zilog' /\ sl_writer' = b
                            /\ sl_readers' = {})]_vars
    /\ [][(zv_zilog /\ zv_state' \in {0, 1}) => zv_zilog']_vars

(* ----------------------------------------------------------------- C30 *)
\* the descriptor made by task c is linked in zvol_state_list
Registered(c) == \E z \in zvol_state_list : z.zv = c

\* C30: zvol_create_minor_impl returns 0 exactly when it has linked the
\* descriptor: a failed dmu_objset_own(), dmu_object_info(), zap_lookup() or
\* make_dev_s() gives a non-zero return and no linked descriptor; a success
\* links a descriptor with zv_state 0 and zv_open_count 0.
C30_CreateSuccessIffRegistered ==
    \A c \in Clients :
        creator[c].pc = "c_done" =>
            /\ (creator[c].ret = "0") <=> Registered(c)
            /\ creator[c].error # "OK" => creator[c].ret # "0"
            /\ \A z \in zvol_state_list :
                  z.zv = c => (z.zv_state = 0 /\ z.zv_open_count = 0)

(* ----------------------------------------------------------------- C31 *)
\* C31: an open or close call that has returned holds zv_suspend_lock no more
\* often than when it was called: no hold of a finished first open or last
\* close is left on the lock.
C31_SuspendHoldBalanced ==
    /\ Leaked \notin sl_readers
    /\ \A c \in Clients : opener[c].pc = "o_idle" => Oc(c) \notin sl_readers

(* ----------------------------------------------------------------- C32 *)
\* C32: zvol_state_lock is released only by a call that holds it, and a
\* zvol_open or zvol_close that has returned, by whatever path, has released
\* it as often as it acquired it.
C32_RegistryLockBalanced ==
    /\ hist.stray = {}
    /\ \A c \in Clients : opener[c].pc = "o_idle" => opener[c].registry = 0

(* ----------------------------------------------------------------- C33 *)
\* C33: no chunk handed to the store by zvol_strategy, zvol_read or zvol_write
\* ends past the volume size the call has read from zv_volsize.
C33_ChunksInsideVolume ==
    \A b \in Clients :
        \A i \in DOMAIN bio[b].chunks :
            bio[b].chunks[i].off + bio[b].chunks[i].size <= bio[b].volsize

(* ----------------------------------------------------------------- C34 *)
\* C34: every zvol_log_write(), zvol_log_truncate() and zil_commit() made for
\* a request, through GEOM or through the character device, finds zv_zilog
\* set.
C34_LogHandleSet ==
    [][\A b \in Clients :
         (bio'[b].path # "none" /\ LogsNow(b) # {}) => zv_zilog]_vars

(* ----------------------------------------------------------------- C35 *)
\* the request has been completed with a read-only, out-of-range or
\* unsupported-operation error and without a range lock or store call
DispatcherRejected(b) ==
    /\ pc[b] = "done"
    /\ bio[b].path \in {"geom", "cdev_strategy"}
    /\ \E e \in {"EROFS", "EIO", "EOPNOTSUPP"} : Rejected(bio[b], e)

\* C35: a request that is rejected has left the descriptor as it was: it has
\* not opened the log, which would also set ZVOL_WRITTEN_TO.
C35_RejectedChangesNothing ==
    \A b \in Clients :
        DispatcherRejected(b) => "zil_open" \notin bio[b].calls

(* ----------------------------------------------------------------- C36 *)
\* how often x is in the sequence q, and where it is first
Times(q, x) == Cardinality({i \in DOMAIN q : q[i] = x})
FirstAt(q, x) == CHOOSE i \in DOMAIN q : q[i] = x /\ \A j \in 1..(i - 1) : q[j] # x

\* C36: a create task disowns the object set once if it owned it and never
\* otherwise; a replay of the log comes before the disown; zv->zv_volmode is
\* not read before the descriptor is allocated or after it is freed.
C36_ProvisionalOwnReleasedOnce ==
    \A c \in Clients :
        LET t == creator[c].trace IN
        /\ Times(t, "dmu_objset_disown") <= Times(t, "dmu_objset_own")
        /\ creator[c].pc \in {"c_done", "c_panic"} =>
              Times(t, "dmu_objset_disown") = Times(t, "dmu_objset_own")
        /\ Times(t, "zil_replay") > 0 =>
              (Times(t, "dmu_objset_disown") > 0 =>
                  FirstAt(t, "zil_replay") < FirstAt(t, "dmu_objset_disown"))
        /\ Times(t, "read_null_zv") = 0
        /\ Times(t, "read_freed_zv") = 0

====
